---- MODULE Spec2Model ----
(***************************************************************************)
(* Model of the character sheet of src/src/character-sheet.ts: the         *)
(* document migrator (validateAndMigrateData / mergeWithDefaults), the     *)
(* undo/redo history (pushHistory / undo / redo / debouncedPushHistory)    *)
(* and the handlers that mutate or replace the live document.              *)
(*                                                                         *)
(* The page's elements (index.html) are taken to exist, so every           *)
(* `if (element)` guard of the source is taken.                            *)
(***************************************************************************)
EXTENDS Integers, Sequences, FiniteSets, TLC

(***************************************************************************)
(* JSON / JavaScript values.  Every value carries its runtime type in t,   *)
(* so that the code's type probes (typeof, Array.isArray, truthiness,      *)
(* ?? and ||) are computed and not assumed.                                *)
(***************************************************************************)
Num(n) == [t |-> "num", v |-> n]
Str(s) == [t |-> "str", v |-> s]
Bool(b) == [t |-> "bool", v |-> b]
Arr(s) == [t |-> "arr", v |-> s]
Obj(f) == [t |-> "obj", v |-> f]
Null == [t |-> "null", v |-> 0]
Undefined == [t |-> "undefined", v |-> 0]
NaN == [t |-> "nan", v |-> 0]

EmptyMap == [k \in {} |-> Undefined]

\* !x is false
Truthy(x) ==
    CASE x.t = "num" -> x.v # 0
      [] x.t = "str" -> x.v # ""
      [] x.t = "bool" -> x.v
      [] x.t \in {"arr", "obj"} -> TRUE
      [] OTHER -> FALSE

\* x === undefined || x === null
Nullish(x) == x.t \in {"null", "undefined"}

\* a || b
Or(a, b) == IF Truthy(a) THEN a ELSE b

\* a ?? b
Coalesce(a, b) == IF Nullish(a) THEN b ELSE a

\* typeof x === 'number'
TypeofNumber(x) == x.t \in {"num", "nan"}

\* typeof x === 'object'   (typeof null and typeof [] are 'object' too)
TypeofObject(x) == x.t \in {"obj", "arr", "null"}

\* x.k for a named (non-index) key k of a value that is not null/undefined
Get(x, k) == IF x.t = "obj" /\ k \in DOMAIN x.v THEN x.v[k] ELSE Undefined

\* x?.k
OptGet(x, k) == IF Nullish(x) THEN Undefined ELSE Get(x, k)

\* the key of index i (1-based here, 0-based in the source) of an array
IndexKey(i) == ToString(i - 1)

\* the own enumerable properties that {...x} copies (the texts that reach a
\* spread in this model are one character long)
SpreadProps(x) ==
    CASE x.t = "obj" -> x.v
      [] x.t = "arr" -> [k \in {IndexKey(i) : i \in 1..Len(x.v)} |->
                           x.v[CHOOSE i \in 1..Len(x.v) : IndexKey(i) = k]]
      [] x.t = "str" /\ Len(x.v) = 1 -> [k \in {"0"} |-> x]
      [] OTHER -> EmptyMap

\* { ...a, ...b } of two property maps
Merge(a, b) == [k \in DOMAIN a \cup DOMAIN b |-> IF k \in DOMAIN b THEN b[k] ELSE a[k]]

Abilities == {"str", "dex", "con", "int", "wis", "cha"}
Sources == {"base", "race", "asi", "feat", "magic"}
SlotLevels == {"level1", "level2", "level3", "level4", "level5",
               "level6", "level7", "level8", "level9"}
CoinKeys == {"cp", "sp", "ep", "gp", "pp"}

\* the fields mergeWithDefaults passes through mergeDefined
PlainFields == {"characterName", "playerName", "race", "class", "level", "background",
                "subclass", "alignment", "experience", "proficiencyBonus",
                "passivePerception", "armorClass", "shield", "initiative", "speed",
                "size", "heroicInspiration", "hitPointsMax", "hitPointsCurrent",
                "hitPointsTemp", "hitDice", "hitDiceSpent", "features", "feats",
                "speciesTraits", "spellcastingAbility", "spellSaveDC",
                "spellAttackBonus", "knownSpells", "equipment", "equipmentDetail",
                "armorProficiencies", "weaponProficiencies", "toolProficiencies",
                "languages", "backstory", "appearance", "notes",
                "characterImageFileId"}

\* the groups mergeWithDefaults merges with a spread
SpreadFields == {"abilityModifiers", "savingThrows", "deathSaves", "spellSlots", "coins"}

DocFields == PlainFields \cup SpreadFields \cup {"abilityScores", "skills", "weapons", "spells"}

DefaultBreakdown == Obj([base |-> Num(10), race |-> Num(0), asi |-> Num(0),
                         feat |-> Num(0), magic |-> Num(0)])

getDefaultData ==
    Obj([characterName |-> Str(""), playerName |-> Str(""), race |-> Str(""),
         class |-> Str(""), level |-> Num(1), background |-> Str(""),
         subclass |-> Str(""), alignment |-> Str(""), experience |-> Num(0),
         abilityScores |-> Obj([a \in Abilities |-> DefaultBreakdown]),
         abilityModifiers |-> Obj([a \in Abilities |-> Str("+0")]),
         proficiencyBonus |-> Num(2), passivePerception |-> Num(10),
         savingThrows |-> Obj([a \in Abilities |-> Bool(a = "con")]),
         armorClass |-> Num(10), shield |-> Bool(FALSE), initiative |-> Num(0),
         speed |-> Num(30), size |-> Str(""), heroicInspiration |-> Bool(FALSE),
         hitPointsMax |-> Num(0), hitPointsCurrent |-> Num(0), hitPointsTemp |-> Num(0),
         hitDice |-> Str(""), hitDiceSpent |-> Num(0),
         deathSaves |-> Obj([success |-> Arr(<<Bool(FALSE), Bool(FALSE), Bool(FALSE)>>),
                             failure |-> Arr(<<Bool(FALSE), Bool(FALSE), Bool(FALSE)>>)]),
         skills |-> Arr(<<>>), weapons |-> Arr(<<>>), spells |-> Arr(<<>>),
         features |-> Str(""), feats |-> Str(""), speciesTraits |-> Str(""),
         spellcastingAbility |-> Str(""), spellSaveDC |-> Num(0),
         spellAttackBonus |-> Str("+0"),
         spellSlots |-> Obj([l \in SlotLevels |-> Obj([current |-> Num(0), max |-> Num(0)])]),
         knownSpells |-> Str(""), equipment |-> Str(""), equipmentDetail |-> Str(""),
         armorProficiencies |-> Str(""), weaponProficiencies |-> Str(""),
         toolProficiencies |-> Str(""), languages |-> Str(""),
         coins |-> Obj([c \in CoinKeys |-> Num(0)]),
         backstory |-> Str(""), appearance |-> Str(""), notes |-> Str(""),
         characterImageFileId |-> Null])

mergeTruthy(defaultVal, savedVal) == Or(savedVal, defaultVal)

\* (savedVal !== undefined && savedVal !== null) ? savedVal : defaultVal
mergeDefined(defaultVal, savedVal) ==
    IF savedVal.t # "undefined" /\ savedVal.t # "null" THEN savedVal ELSE defaultVal

mergeAbilityScoresLooseProbe(defaultScores, savedScores) ==
    IF Truthy(savedScores) /\ Get(savedScores, "str").t # "undefined"
    THEN Obj([a \in Abilities |->
                Obj([base |-> Or(Get(savedScores, a), Num(10)), race |-> Num(0),
                     asi |-> Num(0), feat |-> Num(0), magic |-> Num(0)])])
    ELSE Obj([a \in Abilities |->
                Obj([s \in Sources |->
                       Coalesce(OptGet(OptGet(savedScores, a), s),
                                defaultScores.v[a].v[s])])])

\* mergeAbilityScores(defaults.abilityScores, data.abilityScores || data.abilities)
mergeAbilityScores(defaultScores, savedScores) ==
    IF Truthy(savedScores) /\ TypeofNumber(Get(savedScores, "str"))
    THEN \* old format: one number per ability
         Obj([a \in Abilities |->
                Obj([base |-> Or(Get(savedScores, a), Num(10)), race |-> Num(0),
                     asi |-> Num(0), feat |-> Num(0), magic |-> Num(0)])])
    ELSE Obj([a \in Abilities |->
                Obj([s \in Sources |->
                       Coalesce(OptGet(OptGet(savedScores, a), s),
                                defaultScores.v[a].v[s])])])

\* skills.map(...) throws when skills has no map method or an entry is null/undefined
normalizeSkillsThrows(skills) ==
    \/ skills.t # "arr"
    \/ \E i \in 1..Len(skills.v) : Nullish(skills.v[i])

normalizeSkills(skills) ==
    Arr([i \in 1..Len(skills.v) |->
           Obj([id |-> Get(skills.v[i], "id"),
                name |-> Get(skills.v[i], "name"),
                ability |-> Or(Get(skills.v[i], "ability"), Str("str")),
                modifier |-> Coalesce(Get(skills.v[i], "modifier"), Str("+0"))])])

mergeWithDefaultsThrows(data) ==
    normalizeSkillsThrows(Or(Get(data, "skills"), getDefaultData.v.skills))

mergeWithDefaults(data) ==
    LET defaults == getDefaultData.v
        spread(k) == Obj(Merge(defaults[k].v, SpreadProps(Or(Get(data, k), Obj(EmptyMap)))))
    IN Obj([k \in DocFields |->
              CASE k \in PlainFields -> mergeDefined(defaults[k], Get(data, k))
                [] k \in SpreadFields -> spread(k)
                [] k = "abilityScores" ->
                     mergeAbilityScores(defaults.abilityScores,
                                        Or(Get(data, "abilityScores"), Get(data, "abilities")))
                [] k = "skills" -> normalizeSkills(Or(Get(data, "skills"), defaults.skills))
                [] k = "weapons" -> Or(Get(data, "weapons"), defaults.weapons)
                [] k = "spells" -> Or(Get(data, "spells"), defaults.spells)])

\* the document it returns, and whether it showed 'Failed to validate character data'
validateAndMigrateData(data) ==
    IF ~Truthy(data) \/ ~TypeofObject(data) \/ mergeWithDefaultsThrows(data)
    THEN [doc |-> getDefaultData, failed |-> TRUE]
    ELSE [doc |-> mergeWithDefaults(data), failed |-> FALSE]

(***************************************************************************)
(* loadData: the migration steps it runs on the extracted document before  *)
(* it calls validateAndMigrateData.  No constructor or handler of the      *)
(* current source calls loadData.                                          *)
(***************************************************************************)
skillNames ==
    [athletics |-> "Athletics", acrobatics |-> "Acrobatics", sleight |-> "Sleight of Hand",
     stealth |-> "Stealth", arcana |-> "Arcana", history |-> "History",
     investigation |-> "Investigation", nature |-> "Nature", religion |-> "Religion",
     animal |-> "Animal Handling", insight |-> "Insight", medicine |-> "Medicine",
     perception |-> "Perception", survival |-> "Survival", deception |-> "Deception",
     intimidation |-> "Intimidation", performance |-> "Performance",
     persuasion |-> "Persuasion"]

abilityMap ==
    [athletics |-> "str", acrobatics |-> "dex", sleight |-> "dex", stealth |-> "dex",
     arcana |-> "int", history |-> "int", investigation |-> "int", nature |-> "int",
     religion |-> "int", animal |-> "wis", insight |-> "wis", medicine |-> "wis",
     perception |-> "wis", survival |-> "wis", deception |-> "cha",
     intimidation |-> "cha", performance |-> "cha", persuasion |-> "cha"]

\* the order in which the keyed skills of a payload list their keys
KeyOrder == <<"athletics", "acrobatics", "sleight", "stealth", "arcana", "history",
              "investigation", "nature", "religion", "animal", "insight", "medicine",
              "perception", "survival", "deception", "intimidation", "performance",
              "persuasion", "lockpick">>

\* Object.entries(oldSkills) of a keyed map, keys only
ObjectKeys(x) ==
    IF x.t = "obj" THEN SelectSeq(KeyOrder, LAMBDA k : k \in DOMAIN x.v) ELSE <<>>

\* Object.entries(oldSkills).map(([key], index) => ({ id, name, ability, modifier }))
migrateSkillMap(oldSkills) ==
    LET keys == ObjectKeys(oldSkills)
    IN Arr([i \in 1..Len(keys) |->
              Obj([id |-> Str(ToString(i)),
                   name |-> Str(IF keys[i] \in DOMAIN skillNames
                                THEN skillNames[keys[i]] ELSE keys[i]),
                   ability |-> Str(IF keys[i] \in DOMAIN abilityMap
                                   THEN abilityMap[keys[i]] ELSE "str"),
                   modifier |-> Str("+0")])])

\* the callback of characterData.spells.map: the retired fields are dropped and a
\* duration is ensured
migrateSpell(spell) ==
    IF Get(spell, "concentration").t # "undefined" \/ Get(spell, "material").t # "undefined"
    THEN Obj(Merge([k \in DOMAIN spell.v \ {"concentration", "material"} |-> spell.v[k]],
                   [duration |-> Or(Get(spell, "duration"), Str(""))]))
    ELSE IF Get(spell, "duration").t = "undefined"
    THEN Obj(Merge(SpreadProps(spell), [duration |-> Str("")]))
    ELSE spell

\* a step of loadData throws (spell.concentration of a null entry)
loadDataThrows(characterData) ==
    LET spells == Get(characterData, "spells")
    IN spells.t = "arr" /\ \E i \in 1..Len(spells.v) : Nullish(spells.v[i])

\* loadData on an extracted document that is an object: the document it returns
loadData(characterData) ==
    LET skills == Get(characterData, "skills")
        weapons == Get(characterData, "weapons")
        spells == Get(characterData, "spells")
        stepped ==
            Obj(Merge(characterData.v,
                [skills |-> IF Truthy(skills) /\ skills.t # "arr"
                            THEN migrateSkillMap(skills) ELSE skills,
                 weapons |-> IF ~Truthy(weapons) \/ weapons.t # "arr"
                             THEN Arr(<<>>) ELSE weapons,
                 spells |-> IF ~Truthy(spells) \/ spells.t # "arr" THEN Arr(<<>>)
                            ELSE Arr([i \in 1..Len(spells.v) |-> migrateSpell(spells.v[i])])]))
    IN IF loadDataThrows(characterData) THEN getDefaultData
       ELSE validateAndMigrateData(stepped).doc

(***************************************************************************)
(* Conversions.                                                            *)
(***************************************************************************)
\* JSON.parse(JSON.stringify(x)): undefined properties are dropped, undefined
\* and NaN array elements (and NaN property values) become null
RECURSIVE JsonClone(_)
JsonClone(x) ==
    CASE x.t = "obj" ->
           Obj([k \in {j \in DOMAIN x.v : x.v[j].t # "undefined"} |-> JsonClone(x.v[k])])
      [] x.t = "arr" ->
           Arr([i \in 1..Len(x.v) |->
                  IF x.v[i].t = "undefined" THEN Null ELSE JsonClone(x.v[i])])
      [] x.t = "nan" -> Null
      [] OTHER -> x

\* the decimal numerals the model can parse back
Numerals == -20..200

\* parseInt(x) of a value that is a number, a decimal numeral or no numeral at all
parseInt(x) ==
    CASE x.t = "num" -> x
      [] x.t = "str" /\ (\E n \in Numerals : ToString(n) = x.v) ->
           Num(CHOOSE n \in Numerals : ToString(n) = x.v)
      [] OTHER -> NaN

\* n.toString()
numToString(x) == IF x.t = "nan" THEN Str("NaN") ELSE Str(ToString(x.v))

\* x + 1 on numbers
increment(x) == IF x.t = "nan" THEN NaN ELSE Num(x.v + 1)

Max(a, b) == IF a >= b THEN a ELSE b
Min(a, b) == IF a <= b THEN a ELSE b

\* Math.floor((score - 10) / 2), then the sign-prefixed text
calculateAbilityModifier(score) ==
    IF score.t = "nan" THEN Str("NaN")
    ELSE LET modifier == (score.v - 10) \div 2
         IN IF modifier >= 0 THEN Str("+" \o ToString(modifier)) ELSE Str(ToString(modifier))

validateAbilityScoreNoClamp(value) == value

\* Math.max(1, Math.min(30, value))
validateAbilityScore(value) ==
    IF value.t = "nan" THEN NaN ELSE Num(Max(1, Min(30, value.v)))

\* base + race + asi + feat + magic, clamped.  Components that are not numbers
\* (a text that is no numeral, an object) make the sum not-a-number.
calculateTotalAbilityScore(data, ability) ==
    LET scores == data.v.abilityScores.v[ability].v
    IN IF \A s \in Sources : scores[s].t = "num"
       THEN validateAbilityScore(Num(scores.base.v + scores.race.v + scores.asi.v
                                     + scores.feat.v + scores.magic.v))
       ELSE NaN

\* updateAbilityScore: the stored modifier of the ability is overwritten by the
\* one derived from its breakdown
updateAbilityScore(data, ability) ==
    Obj([data.v EXCEPT !.abilityModifiers =
           Obj([@.v EXCEPT ![ability] =
                  calculateAbilityModifier(calculateTotalAbilityScore(data, ability))])])

\* abilities.forEach(ability => this.updateAbilityScore(ability))
RECURSIVE updateAbilityScores(_, _)
updateAbilityScores(data, todo) ==
    IF todo = {} THEN data
    ELSE LET a == CHOOSE x \in todo : TRUE
         IN updateAbilityScores(updateAbilityScore(data, a), todo \ {a})

(***************************************************************************)
(* Rendering of the three lists.  renderSkills/renderWeapons/renderSpells  *)
(* rebuild the rows and reset the list's next id to (largest id) + 1 when  *)
(* the list is not empty.  They throw when the list is not an array or an  *)
(* entry is null.                                                          *)
(***************************************************************************)
renderThrows(list) ==
    \/ list.t # "arr"
    \/ \E i \in 1..Len(list.v) : Nullish(list.v[i])

\* Math.max(...list.map(e => parseInt(e.id)))
maxId(list) ==
    LET ids == {parseInt(Get(list.v[i], "id")) : i \in 1..Len(list.v)}
    IN IF \E x \in ids : x.t = "nan" THEN NaN
       ELSE CHOOSE x \in ids : \A y \in ids : x.v >= y.v

renderNextId(list, nextId) ==
    IF renderThrows(list) \/ Len(list.v) = 0 THEN nextId ELSE increment(maxId(list))

\* renderSkills(); renderWeapons(); renderSpells(): the next ids, and whether one threw
renderLists(data, ids) ==
    LET sk == data.v.skills
        we == data.v.weapons
        sp == data.v.spells
    IN [skill |-> renderNextId(sk, ids.skill),
        weapon |-> IF renderThrows(sk) THEN ids.weapon ELSE renderNextId(we, ids.weapon),
        spell |-> IF renderThrows(sk) \/ renderThrows(we) THEN ids.spell
                  ELSE renderNextId(sp, ids.spell),
        threw |-> renderThrows(sk) \/ renderThrows(we) \/ renderThrows(sp)]

\* the reads of updateAll that throw on an incomplete document, before the lists
\* are rendered: deathSaves.success[0], spellSlots.level1.current.toString(), ...
updateAllFieldsThrow(data) ==
    \/ \E k \in {"success", "failure"} : Nullish(Get(data.v.deathSaves, k))
    \/ \E l \in {"level1", "level2"} :
          \/ Nullish(Get(data.v.spellSlots, l))
          \/ \E k \in {"current", "max"} : Nullish(Get(Get(data.v.spellSlots, l), k))

\* updateAll(): every field is painted from the document; the ability loop runs
\* updateAbilityScore, which stores the derived modifier back into the document
updateAll(data, ids) ==
    LET derived == updateAbilityScores(data, Abilities)
        r == renderLists(derived, ids)
    IN IF updateAllFieldsThrow(derived)
       THEN [data |-> derived, ids |-> [skill |-> ids.skill, weapon |-> ids.weapon,
                                        spell |-> ids.spell], threw |-> TRUE]
       ELSE [data |-> derived, ids |-> [skill |-> r.skill, weapon |-> r.weapon,
                                        spell |-> r.spell], threw |-> r.threw]

(***************************************************************************)
(* The history.  historyIndex is the 0-based index of the source, so the   *)
(* entry under the cursor is history[historyIndex + 1].                    *)
(***************************************************************************)
MAX_HISTORY == 50

pushHistoryNoTruncate(hist, index, snapshot) ==
    LET pushed == Append(hist, snapshot)
    IN IF Len(pushed) > MAX_HISTORY
       THEN [history |-> Tail(pushed), historyIndex |-> index]
       ELSE [history |-> pushed, historyIndex |-> index + 1]

pushHistoryNoLimit(hist, index, snapshot) ==
    [history |-> Append(SubSeq(hist, 1, index + 1), snapshot), historyIndex |-> index + 1]

\* pushHistory() on a history hist with cursor index, snapshot being
\* JSON.parse(JSON.stringify(this.data))
pushHistory(hist, index, snapshot) ==
    LET pushed == Append(SubSeq(hist, 1, index + 1), snapshot)
    IN IF Len(pushed) > MAX_HISTORY
       THEN [history |-> Tail(pushed), historyIndex |-> index]
       ELSE [history |-> pushed, historyIndex |-> index + 1]

stateCopyShared(doc) == [v |-> doc, live |-> TRUE]

\* JSON.parse(JSON.stringify(this.data)): the value stored, and whether the
\* object stored is the live object itself (it is a new object)
stateCopy(doc) == [v |-> JsonClone(doc), live |-> FALSE]

\* the positions of the history whose entry is the live object itself, after a
\* pushHistory() at cursor index that stored snapshot
aliasedAfterPush(al, index, snapshot) ==
    LET kept == {i \in al : i <= index + 1}
        pushed == IF snapshot.live THEN kept \cup {index + 2} ELSE kept
    IN IF index + 2 > MAX_HISTORY THEN {i - 1 : i \in pushed} \ {0} ELSE pushed

\* a write to the live object shows in every entry that is that object
writeThrough(hist, al, doc) ==
    [i \in 1..Len(hist) |-> IF i \in al THEN doc ELSE hist[i]]

\* the undo / redo buttons are enabled (updateHistoryButtons)
canUndo(hist, index) == ~(index <= 0)
canRedo(hist, index) == ~(index >= Len(hist) - 1)

(***************************************************************************)
(* The sheet.                                                              *)
(***************************************************************************)
VARIABLES
    data,                 \* this.data, the live document
    history,              \* this.history
    historyIndex,         \* this.historyIndex
    undoDisabled,         \* #undoBtn.disabled
    redoDisabled,         \* #redoBtn.disabled
    aliased,              \* the positions of this.history whose entry is the object this.data
    historyTimeout,       \* TRUE while a timer set by debouncedPushHistory has not fired
    timers,               \* the number of timer callbacks set and neither cleared nor run
    statusTimers,         \* the number of timers set to clear #saveStatus that have not run
    imageCache,           \* the file whose image localStorage holds under LOCAL_IMAGE_KEY, or Null
    imageDisplay,         \* the file whose image #imageDisplay shows, or a placeholder
    signedIn,             \* googleDriveManager.isSignedIn()
    nextSkillId, nextWeaponId, nextSpellId,
    currentDriveFileId, currentDriveFileName,
    localStorage,         \* the items under LOCAL_STORAGE_KEY and LOCAL_DRIVE_FILE_KEY
    saveStatus,           \* the class showSaveStatus left on #saveStatus
    driveButtonsEnabled,  \* setDriveButtonsEnabled
    pendingLoads,         \* loadFromGoogleDrive calls waiting for the remote store
    pendingSaves,         \* save calls waiting for the remote store
    pendingCalls,         \* deleteFile and listFiles calls waiting for the remote store
    driveFiles,           \* ids of the files in the remote store
    \* the migrator taken alone
    payload,              \* the raw value last handed to validateAndMigrateData
    migrated, remigrated, mstep,
    \* bookkeeping of the run, read by the properties only
    lastOp,               \* the handler that ran last
    pushCount,            \* number of pushHistory calls since the history was last empty
    ordinals,             \* for each history entry, the pushCount of the push that stored it
    pushedDoc,            \* the live document as the last pushHistory call saw it
    settled,              \* the live document as the last push or install left it
    pushRun, undoRun,     \* settled documents before each push of a run of pushes; undos after it
    undoDocs, redoRun,    \* live documents before each undo of a run of undos; redos after it
    used,                 \* how many handlers, undos and redos have run
    limits                \* how many handlers this run may take

vars == <<data, history, historyIndex, undoDisabled, redoDisabled, aliased, historyTimeout, timers, statusTimers,
          imageCache, imageDisplay, signedIn,
          nextSkillId, nextWeaponId,
          nextSpellId, currentDriveFileId, currentDriveFileName, localStorage,
          saveStatus, driveButtonsEnabled, pendingLoads, pendingSaves, pendingCalls, driveFiles,
          payload, migrated,
          remigrated, mstep, lastOp, pushCount, ordinals, pushedDoc, settled,
          pushRun, undoRun, undoDocs, redoRun, used, limits>>

sheetVars == <<data, history, historyIndex, undoDisabled, redoDisabled, aliased, historyTimeout, timers, statusTimers,
          imageCache, imageDisplay, signedIn,
          nextSkillId, nextWeaponId,
               nextSpellId, currentDriveFileId, currentDriveFileName, localStorage,
               saveStatus, driveButtonsEnabled, pendingLoads, pendingSaves, pendingCalls, driveFiles,
               lastOp, pushCount,
               ordinals, pushedDoc, settled, pushRun, undoRun, undoDocs, redoRun,
               used, limits>>

migVars == <<migrated, remigrated, mstep>>

\* bounds of the runs
MaxSteps == 4
MaxLongSteps == 62

\* what the user types
NameInputs == {"A"}
ScoreInputs == {"16"}
ModifierInputs == {"+5"}
EditAbilities == {"str"}
EditSources == {"base"}

\* the remote store's files
FileIds == {"f1"}
\* the files of the store when the page opens
InitialDriveFiles == {"f1", "f2"}
FileNames == {"n1"}

Skill(id, name) == Obj([id |-> Str(id), name |-> Str(name), ability |-> Str("dex"),
                        modifier |-> Str("+3")])
Weapon(id) == Obj([id |-> Str(id), name |-> Str("W"), atkBonus |-> Str(""),
                   damage |-> Str(""), notes |-> Str("")])

\* JSON.parse of the content of a remote file; "unparsable" when JSON.parse throws
RemoteContents ==
    { \* the bare document of the oldest format, with an overridden modifier
      Obj([characterName |-> Str("B"),
           abilityModifiers |-> Obj([str |-> Str("+5")]),
           skills |-> Arr(<<Skill("7", "S")>>)]),
      \* the envelope, its weapons in the keyed shape
      Obj(("character-definition" :> Obj([weapons |-> Obj([w1 |-> Weapon("1")])]))
          @@ ("sheet-layout" :> Obj([skillsWidth |-> Num(0)]))),
      Str("unparsable") }

\* what an earlier session left in localStorage (parsed); Undefined when the item is absent
InitialCaches ==
    { [data |-> Undefined, driveInfo |-> Undefined],
      [data |-> Obj([characterName |-> Str("A"),
                     abilityModifiers |-> Obj([str |-> Str("+5")]),
                     weapons |-> Arr(<<Weapon("100")>>)]),
       driveInfo |-> Obj([fileId |-> Str("f1"), fileName |-> Str("n1")])] }

ShortLimits == [steps |-> MaxSteps, track |-> TRUE]
LongLimits == [steps |-> MaxLongSteps, track |-> FALSE]
NoUse == [steps |-> 0, undos |-> 0, redos |-> 0]

Ids(s, w, p) == [skill |-> s, weapon |-> w, spell |-> p]

\* new CharacterSheet(): the fields after the constructor has run on a cache
constructed(cache) ==
    LET loaded == IF cache.data.t # "undefined"
                  THEN validateAndMigrateData(cache.data)
                  ELSE [doc |-> getDefaultData, failed |-> FALSE]
        h == pushHistory(<<>>, -1, stateCopy(loaded.doc).v)
        al == aliasedAfterPush({}, -1, stateCopy(loaded.doc))
        seeded == Ids(Num(100), Num(100), Num(100))
        r == renderLists(loaded.doc, seeded)
        u == IF r.threw THEN [data |-> loaded.doc, ids |-> r]
             ELSE updateAll(loaded.doc, r)
    IN [data |-> u.data, migratedDoc |-> loaded.doc,
        history |-> writeThrough(h.history, al, u.data), aliased |-> al,
        historyIndex |-> h.historyIndex, ids |-> u.ids,
        fileId |-> Or(OptGet(cache.driveInfo, "fileId"), Null),
        fileName |-> Or(OptGet(cache.driveInfo, "fileName"), Null),
        status |-> IF loaded.failed THEN "error" ELSE "none"]

InitSheet(cache, lim) ==
    LET c == constructed(cache)
    IN /\ data = c.data
       /\ history = c.history
       /\ historyIndex = c.historyIndex
       /\ undoDisabled = (c.historyIndex <= 0)
       /\ redoDisabled = (c.historyIndex >= Len(c.history) - 1)
       /\ aliased = c.aliased
       /\ historyTimeout = FALSE
       /\ timers = 0
       /\ statusTimers = 0
       /\ imageCache = Null
       /\ imageDisplay = Str("none")
       /\ signedIn = TRUE
       /\ nextSkillId = c.ids.skill
       /\ nextWeaponId = c.ids.weapon
       /\ nextSpellId = c.ids.spell
       /\ currentDriveFileId = c.fileId
       /\ currentDriveFileName = c.fileName
       /\ localStorage = cache
       /\ saveStatus = c.status
       /\ driveButtonsEnabled = TRUE
       /\ pendingLoads = {}
       /\ pendingSaves = {}
       /\ pendingCalls = {}
       /\ driveFiles = InitialDriveFiles
       /\ lastOp = "construct"
       /\ pushCount = 1
       /\ ordinals = <<1>>
       /\ pushedDoc = c.migratedDoc
       /\ settled = c.data
       /\ pushRun = <<>>
       /\ undoRun = 0
       /\ undoDocs = <<>>
       /\ redoRun = 0
       /\ used = NoUse
       /\ limits = lim

Init ==
    /\ \E cache \in InitialCaches : InitSheet(cache, ShortLimits) /\ payload = cache.data
    /\ migrated = Undefined
    /\ remigrated = Undefined
    /\ mstep = "idle"

(***************************************************************************)
(* Bookkeeping shared by the handlers.                                     *)
(***************************************************************************)
\* updateHistoryButtons() with the history hist and the cursor index
updateHistoryButtons(hist, index) ==
    /\ undoDisabled' = (index <= 0)
    /\ redoDisabled' = (index >= Len(hist) - 1)

\* this.pushHistory() with the live document doc
DoPush(doc) ==
    LET r == pushHistory(writeThrough(history, aliased, doc), historyIndex, stateCopy(doc).v)
    IN /\ history' = r.history
       /\ historyIndex' = r.historyIndex
       /\ updateHistoryButtons(r.history, r.historyIndex)
       /\ aliased' = aliasedAfterPush(aliased, historyIndex, stateCopy(doc))
       /\ pushCount' = pushCount + 1
       /\ ordinals' = pushHistory(ordinals, historyIndex, pushCount + 1).history
       /\ pushedDoc' = doc

\* a handler that neither pushes nor writes to the live document
NoPush == UNCHANGED <<history, historyIndex, undoDisabled, redoDisabled, aliased, pushCount,
                      ordinals, pushedDoc>>

\* a handler that writes to the live document, leaving it doc, and does not push
NoPushEdit(doc) ==
    /\ history' = writeThrough(history, aliased, doc)
    /\ UNCHANGED <<historyIndex, undoDisabled, redoDisabled, aliased, pushCount, ordinals,
                   pushedDoc>>

Sync == settled' = data'

TrackPush ==
    /\ pushRun' = IF ~limits.track THEN <<>>
                  ELSE IF undoRun > 0 THEN <<settled>> ELSE Append(pushRun, settled)
    /\ undoRun' = 0
    /\ undoDocs' = <<>>
    /\ redoRun' = 0

TrackEdit ==
    /\ pushRun' = IF undoRun > 0 THEN <<>> ELSE pushRun
    /\ undoRun' = 0
    /\ undoDocs' = <<>>
    /\ redoRun' = 0

TrackReset ==
    /\ pushRun' = <<>>
    /\ undoRun' = 0
    /\ undoDocs' = <<>>
    /\ redoRun' = 0

\* an undo that moves the cursor while no edit awaits its push
TrackUndo ==
    LET clean == limits.track /\ ~historyTimeout /\ historyIndex > 0
    IN /\ undoRun' = IF clean /\ undoRun < Len(pushRun) THEN undoRun + 1 ELSE 0
       /\ pushRun' = IF clean /\ undoRun < Len(pushRun) THEN pushRun ELSE <<>>
       /\ undoDocs' = IF ~clean THEN <<>>
                      ELSE IF redoRun > 0 THEN <<data>> ELSE Append(undoDocs, data)
       /\ redoRun' = 0

\* a redo that moves the cursor while no edit awaits its push
TrackRedo ==
    LET clean == limits.track /\ ~historyTimeout /\ historyIndex < Len(history) - 1
                 /\ redoRun < Len(undoDocs)
    IN /\ redoRun' = IF clean THEN redoRun + 1 ELSE 0
       /\ undoDocs' = IF clean THEN undoDocs ELSE <<>>
       /\ pushRun' = <<>>
       /\ undoRun' = 0

Step == used.steps < limits.steps
Use(kind) ==
    used' = IF kind = "steps" THEN [used EXCEPT !.steps = @ + 1]
            ELSE [used EXCEPT !.steps = @ + 1, ![kind] = @ + 1]

driveVars == <<currentDriveFileId, currentDriveFileName, saveStatus, driveButtonsEnabled,
               pendingLoads, pendingSaves, pendingCalls, driveFiles, payload>>
idVars == <<nextSkillId, nextWeaponId, nextSpellId>>
timerVars == <<historyTimeout, timers, statusTimers>>
uiVars == <<imageCache, imageDisplay, signedIn>>

setDriveButtonsEnabledWhenIdle(enabled) ==
    driveButtonsEnabled' = (enabled /\ pendingSaves = {} /\ pendingLoads = {})

\* setDriveButtonsEnabled(enabled): the three drive buttons and those of the modal
setDriveButtonsEnabled(enabled) == driveButtonsEnabled' = enabled

\* debouncedPushHistory(): the pending timer, if any, is replaced by a new one.
\* Timers of one delay run in the order they were set, so the one the handle
\* refers to runs last.
\* if (this.historyTimeout) clearTimeout(this.historyTimeout)
clearTimeout(pending) == IF historyTimeout THEN pending - 1 ELSE pending

\* window.setTimeout(callback, 500)
setTimeout(pending) == pending + 1

debouncedPushHistoryNoClear ==
    /\ historyTimeout' = TRUE
    /\ timers' = setTimeout(timers)
    /\ UNCHANGED statusTimers

debouncedPushHistory ==
    /\ historyTimeout' = TRUE
    /\ timers' = setTimeout(clearTimeout(timers))
    /\ UNCHANGED statusTimers

\* setTimeout(() => { statusEl.textContent = ''; statusEl.className = 'save-status' }, 2000)
clearStatusLater == statusTimers' = statusTimers + 1

(***************************************************************************)
(* Field edits (addInputListener callbacks), each followed by              *)
(* debouncedPushHistory.                                                   *)
(***************************************************************************)
FieldEdit(op, newData) ==
    /\ Step
    /\ data' = newData
    /\ debouncedPushHistory
    /\ NoPushEdit(newData) /\ TrackEdit /\ Use("steps")
    /\ lastOp' = op
    /\ UNCHANGED <<idVars, driveVars, localStorage, migVars, uiVars, limits, settled>>

SetCharacterName(v) ==
    FieldEdit("edit", Obj([data.v EXCEPT !.characterName = Str(v)]))

\* this.data.shield ? 2 : 0
shieldBonus(doc) == IF Truthy(doc.v.shield) THEN 2 ELSE 0

\* updateDisplayedArmorClass: the text put into the armorClass input,
\* (this.data.armorClass || 10) + shieldBonus, for a number, text or boolean base
displayedArmorClass(doc) ==
    LET baseAC == Or(doc.v.armorClass, Num(10))
    IN CASE baseAC.t = "num" -> numToString(Num(baseAC.v + shieldBonus(doc)))
         [] baseAC.t = "str" -> Str(baseAC.v \o ToString(shieldBonus(doc)))
         [] baseAC.t = "bool" -> numToString(Num(1 + shieldBonus(doc)))

\* the armorClass listener: the text typed is the total, the base is stored
SetArmorClass(v) ==
    LET enteredAC == Or(parseInt(Str(v)), Num(10))
    IN FieldEdit("editArmorClass",
                 Obj([data.v EXCEPT !.armorClass = Num(enteredAC.v - shieldBonus(data))]))

\* the shield checkbox listener
SetShield(v) ==
    FieldEdit("editShield", Obj([data.v EXCEPT !.shield = Bool(v)]))

\* the listener of ${ability}${Source}: parse, clamp, store, updateAbilityScore
abilityInputValueUnclamped(source, parsedValue) ==
    IF parsedValue.t = "nan" THEN (IF source = "base" THEN Num(10) ELSE Num(0))
    ELSE parsedValue

\* the value the listener of an ability-score field stores for the parsed input
abilityInputValue(source, parsedValue) ==
    IF source = "base"
    THEN (IF parsedValue.t = "nan" THEN Num(10)
          ELSE Num(Max(1, Min(30, parsedValue.v))))
    ELSE (IF parsedValue.t = "nan" THEN Num(0)
          ELSE Num(Max(-10, Min(20, parsedValue.v))))

SetAbilityScore(ability, source, v) ==
    LET parsedValue == IF v = "" THEN Num(0) ELSE parseInt(Str(v))
        value == abilityInputValue(source, parsedValue)
        stored == Obj([data.v EXCEPT !.abilityScores =
                         Obj([@.v EXCEPT ![ability] = Obj([@.v EXCEPT ![source] = value])])])
    IN FieldEdit("editScore", updateAbilityScore(stored, ability))

\* the listener of ${ability}Mod
SetAbilityModifier(ability, v) ==
    FieldEdit("editModifier",
              Obj([data.v EXCEPT !.abilityModifiers = Obj([@.v EXCEPT ![ability] = Str(v)])]))

\* a timer set after a save or a load runs: the status is cleared
StatusTimerFire ==
    /\ statusTimers > 0
    /\ Step
    /\ statusTimers' = statusTimers - 1
    /\ saveStatus' = "none"
    /\ lastOp' = "statusTimer"
    /\ NoPush /\ Use("steps")
    /\ UNCHANGED <<data, historyTimeout, timers, idVars, currentDriveFileId,
                   currentDriveFileName, driveButtonsEnabled, pendingLoads, pendingSaves,
                   pendingCalls, driveFiles, payload, localStorage, migVars, uiVars, limits,
                   settled, pushRun, undoRun, undoDocs, redoRun>>

\* the timer of debouncedPushHistory fires: pushHistory(); saveToLocalStorage()
TimerFire ==
    /\ timers > 0
    /\ Step
    /\ timers' = timers - 1
    /\ historyTimeout' = (timers - 1 > 0)
    /\ UNCHANGED statusTimers
    /\ DoPush(data)
    /\ localStorage' = [data |-> JsonClone(data),
                        driveInfo |-> Obj([fileId |-> currentDriveFileId,
                                           fileName |-> currentDriveFileName])]
    /\ TrackPush
    /\ lastOp' = "timer"
    /\ Use("steps")
    /\ UNCHANGED <<data, idVars, driveVars, migVars, uiVars, limits>>
    /\ Sync

(***************************************************************************)
(* The three lists.  add: push the entry, bump the next id, render, push   *)
(* the history.  remove: filter, render, push the history.  A render that  *)
(* throws ends the handler before pushHistory.                             *)
(***************************************************************************)
ListOp(op, newData, newIds) ==
    /\ Step
    /\ data' = newData
    /\ nextSkillId' = newIds.skill
    /\ nextWeaponId' = newIds.weapon
    /\ nextSpellId' = newIds.spell
    /\ IF newIds.threw
       THEN NoPushEdit(newData) /\ TrackReset /\ UNCHANGED settled
       ELSE DoPush(newData) /\ TrackPush /\ Sync
    /\ Use("steps")
    /\ lastOp' = op
    /\ UNCHANGED <<timerVars, driveVars, localStorage, migVars, uiVars, limits>>

withList(field, list) == Obj([data.v EXCEPT ![field] = list])

removeAllEntries(list, id) == Arr(<<>>)

\* list.filter(e => e.id !== id)
removeById(list, id) ==
    Arr(SelectSeq(list.v, LAMBDA e : Get(e, "id") # id))

entryIds(list) ==
    IF list.t = "arr" THEN {OptGet(list.v[i], "id") : i \in 1..Len(list.v)} ELSE {}

addSkill ==
    LET newSkill == Obj([id |-> numToString(nextSkillId), name |-> Str(""),
                         ability |-> Str("str"), modifier |-> Str("+0")])
        list == Arr(Append(data.v.skills.v, newSkill))
    IN ListOp("addSkill", withList("skills", list),
              [skill |-> renderNextId(list, increment(nextSkillId)),
               weapon |-> nextWeaponId, spell |-> nextSpellId,
               threw |-> renderThrows(list)])

removeSkill(id) ==
    LET list == removeById(data.v.skills, id)
    IN ListOp("removeSkill", withList("skills", list),
              [skill |-> renderNextId(list, nextSkillId),
               weapon |-> nextWeaponId, spell |-> nextSpellId,
               threw |-> renderThrows(list)])

addWeapon ==
    LET newWeapon == Obj([id |-> numToString(nextWeaponId), name |-> Str(""),
                          atkBonus |-> Str(""), damage |-> Str(""), notes |-> Str("")])
        list == Arr(Append(data.v.weapons.v, newWeapon))
    IN /\ data.v.weapons.t = "arr"
       /\ ListOp("addWeapon", withList("weapons", list),
                 [skill |-> nextSkillId,
                  weapon |-> renderNextId(list, increment(nextWeaponId)),
                  spell |-> nextSpellId, threw |-> renderThrows(list)])

removeWeapon(id) ==
    LET list == removeById(data.v.weapons, id)
    IN ListOp("removeWeapon", withList("weapons", list),
              [skill |-> nextSkillId, weapon |-> renderNextId(list, nextWeaponId),
               spell |-> nextSpellId, threw |-> renderThrows(list)])

addSpell ==
    LET newSpell == Obj([id |-> numToString(nextSpellId), name |-> Str(""),
                         level |-> Str(""), castingTime |-> Str(""), range |-> Str(""),
                         duration |-> Str(""), notes |-> Str("")])
        list == Arr(Append(data.v.spells.v, newSpell))
    IN /\ data.v.spells.t = "arr"
       /\ ListOp("addSpell", withList("spells", list),
                 [skill |-> nextSkillId, weapon |-> nextWeaponId,
                  spell |-> renderNextId(list, increment(nextSpellId)),
                  threw |-> renderThrows(list)])

removeSpell(id) ==
    LET list == removeById(data.v.spells, id)
    IN ListOp("removeSpell", withList("spells", list),
              [skill |-> nextSkillId, weapon |-> nextWeaponId,
               spell |-> renderNextId(list, nextSpellId), threw |-> renderThrows(list)])

\* the input of a weapon row: (data as any)[field.key] = value on the entry the
\* row was created for, then debouncedPushHistory()
SetWeaponName(id, v) ==
    LET list == Arr([i \in 1..Len(data.v.weapons.v) |->
                       IF Get(data.v.weapons.v[i], "id") = id
                       THEN Obj([data.v.weapons.v[i].v EXCEPT !.name = Str(v)])
                       ELSE data.v.weapons.v[i]])
    IN FieldEdit("editRow", withList("weapons", list))

(***************************************************************************)
(* Undo and redo.                                                          *)
(***************************************************************************)
imageOf(doc) == Get(doc, "characterImageFileId")

\* loadCharacterImage(), the last statement of updateAll(): the cached image is
\* displayed; without one, and with a file id in the document and a session,
\* loadImage is called; otherwise the display stays as it is
loadCharacterImage(doc) ==
    /\ imageDisplay' = IF imageCache # Null THEN imageCache ELSE imageDisplay
    /\ pendingCalls' =
          IF imageCache = Null /\ Truthy(imageOf(doc)) /\ signedIn
          THEN pendingCalls \cup {[kind |-> "loadImage", fileId |-> imageOf(doc).v]}
          ELSE pendingCalls
    /\ UNCHANGED <<imageCache, signedIn>>

installCopyShared(entry) == [v |-> entry, live |-> TRUE]

\* JSON.parse(JSON.stringify(this.history[this.historyIndex])): a new object
installCopy(entry) == [v |-> JsonClone(entry), live |-> FALSE]

Install(index) ==
    LET copy == installCopy(history[index + 1])
        u == updateAll(copy.v, Ids(nextSkillId, nextWeaponId, nextSpellId))
    IN /\ historyIndex' = index
       /\ data' = u.data
       /\ aliased' = IF copy.live THEN {index + 1} ELSE {}
       /\ history' = writeThrough(history, aliased', u.data)
       /\ nextSkillId' = u.ids.skill
       /\ nextWeaponId' = u.ids.weapon
       /\ nextSpellId' = u.ids.spell
       /\ IF u.threw THEN UNCHANGED <<uiVars, pendingCalls, undoDisabled, redoDisabled>>
          ELSE loadCharacterImage(u.data) /\ updateHistoryButtons(history, index)

undo ==
    /\ Step
    /\ IF historyIndex > 0
       THEN Install(historyIndex - 1) /\ Sync
       ELSE UNCHANGED <<data, history, historyIndex, undoDisabled, redoDisabled, aliased,
                        idVars, settled, uiVars, pendingCalls>>
    /\ TrackUndo /\ Use("undos")
    /\ lastOp' = "undo"
    /\ UNCHANGED <<timerVars, pushCount, ordinals, pushedDoc, currentDriveFileId,
                   currentDriveFileName, saveStatus, driveButtonsEnabled, pendingLoads,
                   pendingSaves, driveFiles, payload, localStorage, migVars, limits>>

redo ==
    /\ Step
    /\ IF historyIndex < Len(history) - 1
       THEN Install(historyIndex + 1) /\ Sync
       ELSE UNCHANGED <<data, history, historyIndex, undoDisabled, redoDisabled, aliased,
                        idVars, settled, uiVars, pendingCalls>>
    /\ TrackRedo /\ Use("redos")
    /\ lastOp' = "redo"
    /\ UNCHANGED <<timerVars, pushCount, ordinals, pushedDoc, currentDriveFileId,
                   currentDriveFileName, saveStatus, driveButtonsEnabled, pendingLoads,
                   pendingSaves, driveFiles, payload, localStorage, migVars, limits>>

(***************************************************************************)
(* Remote load.                                                            *)
(***************************************************************************)
\* loadFromGoogleDrive up to its await
loadFromGoogleDriveStart(fileId, fileName) ==
    /\ Step
    /\ driveButtonsEnabled
    /\ setDriveButtonsEnabled(FALSE)
    /\ saveStatus' = "saving"
    /\ pendingLoads' = pendingLoads \cup {[fileId |-> fileId, fileName |-> fileName]}
    /\ Use("steps")
    /\ lastOp' = "loadStart"
    /\ NoPush
    /\ UNCHANGED <<data, timerVars, idVars, currentDriveFileId, currentDriveFileName,
                   payload, localStorage, migVars, uiVars, limits, settled, pushRun, undoRun,
                   undoDocs, redoRun, pendingSaves, pendingCalls, driveFiles>>

\* the catch and finally blocks of loadFromGoogleDrive
loadFailed(req) ==
    /\ saveStatus' = "error"
    /\ setDriveButtonsEnabled(TRUE)
    /\ pendingLoads' = pendingLoads \ {req}
    /\ lastOp' = "loadError"

\* the remote call rejects, JSON.parse throws, or the content is the JSON null
loadFromGoogleDriveRejected(req, content) ==
    /\ Step
    /\ content.t \in {"undefined", "null"} \/ content = Str("unparsable")
    /\ loadFailed(req)
    /\ NoPush /\ Use("steps")
    /\ UNCHANGED <<data, timerVars, idVars, currentDriveFileId, currentDriveFileName,
                   payload, localStorage, migVars, uiVars, limits, settled, pushRun, undoRun,
                   undoDocs, redoRun, pendingSaves, pendingCalls, driveFiles>>

\* fileData['character-definition'] && fileData['sheet-layout']
isEnvelope(fileData) ==
    Truthy(Get(fileData, "character-definition")) /\ Truthy(Get(fileData, "sheet-layout"))

characterDataOf(fileData) ==
    IF isEnvelope(fileData) THEN Get(fileData, "character-definition") ELSE fileData

\* layoutData: fileData['sheet-layout'] of an envelope, else undefined
layoutDataOf(fileData) ==
    IF isEnvelope(fileData) THEN Get(fileData, "sheet-layout") ELSE Undefined

\* if (layoutData) this.layoutManager.setLayout(layoutData)
layoutAfterLoad(fileData, layout) ==
    IF Truthy(layoutDataOf(fileData)) THEN layoutDataOf(fileData) ELSE layout

resetHistoryMissing == [history |-> history, historyIndex |-> historyIndex]

\* this.history = []; this.historyIndex = -1
resetHistory == [history |-> <<>>, historyIndex |-> -1]

\* loadFromGoogleDrive after its await, the remote store having answered content
loadFromGoogleDriveLoaded(req, content) ==
    LET loaded == validateAndMigrateData(characterDataOf(content))
        h == pushHistory(resetHistory.history, resetHistory.historyIndex,
                         stateCopy(loaded.doc).v)
        al == aliasedAfterPush({}, resetHistory.historyIndex, stateCopy(loaded.doc))
        r == renderLists(loaded.doc, Ids(nextSkillId, nextWeaponId, nextSpellId))
        u == IF r.threw THEN [data |-> loaded.doc, ids |-> r, threw |-> TRUE]
             ELSE updateAll(loaded.doc, r)
    IN /\ Step
       /\ ~(content.t \in {"undefined", "null"} \/ content = Str("unparsable"))
       /\ payload' = characterDataOf(content)
       /\ data' = u.data
       /\ currentDriveFileId' = Str(req.fileId)
       /\ currentDriveFileName' = Or(Str(req.fileName), Null)
       /\ history' = writeThrough(h.history, al, u.data)
       /\ historyIndex' = h.historyIndex
       /\ updateHistoryButtons(h.history, h.historyIndex)
       /\ aliased' = al
       /\ pushCount' = 1
       /\ ordinals' = pushHistory(SubSeq(ordinals, 1, Len(resetHistory.history)),
                                  resetHistory.historyIndex, 1).history
       /\ pushedDoc' = loaded.doc
       /\ nextSkillId' = u.ids.skill
       /\ nextWeaponId' = u.ids.weapon
       /\ nextSpellId' = u.ids.spell
       /\ IF u.threw
          THEN loadFailed(req) /\ UNCHANGED <<statusTimers, uiVars, pendingCalls>>
          ELSE /\ loadCharacterImage(u.data)
               /\ saveStatus' = "saved"
               /\ clearStatusLater
               /\ setDriveButtonsEnabled(TRUE)
               /\ pendingLoads' = pendingLoads \ {req}
               /\ lastOp' = "load"
       /\ TrackReset /\ Use("steps")
       /\ UNCHANGED <<historyTimeout, timers, localStorage, migVars, limits, pendingSaves,
                      driveFiles>>
       /\ Sync

(***************************************************************************)
(* Saves to the remote store.  A file name typed into the prompt is a      *)
(* sequence of characters, so that trim() and endsWith() are computed.     *)
(***************************************************************************)
\* this.layoutManager.getLayout(): always an object; the default layout
getLayout ==
    Obj([skillsWidth |-> Num(250), weaponsWidth |-> Num(0), proficienciesWidth |-> Num(0),
         equipmentWidth |-> Num(0), spellColumnWidths |-> Obj(EmptyMap)])

\* { 'character-definition': this.data, 'sheet-layout': getLayout() }
fileData(doc) ==
    Obj(("character-definition" :> doc) @@ ("sheet-layout" :> getLayout))

\* what JSON.parse reads back from JSON.stringify(x, null, 2)
stringified(x) == JsonClone(x)

RECURSIVE Join(_)
Join(chars) == IF chars = <<>> THEN "" ELSE Head(chars) \o Join(Tail(chars))

RECURSIVE trimStart(_)
trimStart(chars) ==
    IF chars # <<>> /\ Head(chars) = " " THEN trimStart(Tail(chars)) ELSE chars

RECURSIVE trimEnd(_)
trimEnd(chars) ==
    IF chars # <<>> /\ chars[Len(chars)] = " "
    THEN trimEnd(SubSeq(chars, 1, Len(chars) - 1)) ELSE chars

\* fileName.trim()
trim(chars) == trimEnd(trimStart(chars))

\* trimmedFileName.endsWith('.json')
endsWithJson(chars) ==
    Len(chars) >= 5 /\ SubSeq(chars, Len(chars) - 4, Len(chars)) = <<".", "j", "s", "o", "n">>

\* trimmedFileName.endsWith('.json') ? trimmedFileName : `${trimmedFileName}.json`
finalFileName(chars) ==
    IF endsWithJson(chars) THEN Str(Join(chars)) ELSE Str(Join(chars) \o ".json")

\* this.currentDriveFileName || (characterName ? `${characterName}-character-sheet.json`
\*                                              : 'character-sheet.json')
saveFileName ==
    Or(currentDriveFileName,
       IF Truthy(data.v.characterName)
       THEN Str(data.v.characterName.v \o "-character-sheet.json")
       ELSE Str("character-sheet.json"))

\* the statements of a save before its await: buttons off, status, the call
saveCall(op, fileName, fileId) ==
    /\ Step
    /\ driveButtonsEnabled
    /\ signedIn
    /\ setDriveButtonsEnabled(FALSE)
    /\ saveStatus' = "saving"
    /\ pendingSaves' = pendingSaves \cup
           {[fileName |-> fileName, fileId |-> fileId,
             content |-> stringified(fileData(data))]}
    /\ Use("steps")
    /\ lastOp' = op
    /\ NoPush
    /\ UNCHANGED <<data, timerVars, idVars, currentDriveFileId, currentDriveFileName,
                   payload, localStorage, migVars, uiVars, limits, settled, pushRun, undoRun,
                   undoDocs, redoRun, pendingLoads, pendingCalls, driveFiles>>

passedFileIdNone(binding) == Undefined

\* this.currentDriveFileId || undefined
passedFileId(binding) == Or(binding, Undefined)

saveToGoogleDriveStart ==
    saveCall("saveStart", saveFileName, passedFileId(currentDriveFileId))

\* prompt() answered null (cancel) or a text; an empty text returns as cancel
\* does, a blank one shows an error
saveAsNewToGoogleDriveStart(answer) ==
    IF answer = Null \/ answer = <<>>
    THEN /\ Step /\ driveButtonsEnabled /\ signedIn
         /\ Use("steps")
         /\ lastOp' = "saveAsNewCancelled"
         /\ NoPush
         /\ UNCHANGED <<data, timerVars, idVars, driveVars, localStorage, migVars, uiVars,
                        limits, settled, pushRun, undoRun, undoDocs, redoRun>>
    ELSE IF trim(answer) = <<>>
    THEN /\ Step /\ driveButtonsEnabled /\ signedIn
         /\ saveStatus' = "error"
         /\ Use("steps")
         /\ lastOp' = "saveAsNewBlank"
         /\ NoPush
         /\ UNCHANGED <<data, timerVars, idVars, currentDriveFileId,
                        currentDriveFileName, driveButtonsEnabled, pendingLoads,
                        pendingSaves, pendingCalls, driveFiles, payload, localStorage, migVars, uiVars, limits,
                        settled,
                        pushRun, undoRun, undoDocs, redoRun>>
    ELSE saveCall("saveAsNewStart", finalFileName(trim(answer)), Undefined)

\* the store: with an id (if (fileId)) the file of that id is updated and keeps
\* its id; without one a file is created under an id no file has.  When the
\* file of the given id is gone saveFile of the Apps Script creates one too.
NewFileIds == {"f3", "f4"}
savedFileIds(req) ==
    IF Truthy(req.fileId) /\ req.fileId.v \in driveFiles
    THEN {req.fileId.v}
    ELSE NewFileIds \ driveFiles

saveFailedUnbinds(req) ==
    /\ saveStatus' = "error"
    /\ setDriveButtonsEnabled(TRUE)
    /\ pendingSaves' = pendingSaves \ {req}
    /\ lastOp' = "saveError"
    /\ currentDriveFileId' = Null
    /\ currentDriveFileName' = Null

\* the catch and finally blocks of the two saves
saveFailed(req) ==
    /\ saveStatus' = "error"
    /\ setDriveButtonsEnabled(TRUE)
    /\ pendingSaves' = pendingSaves \ {req}
    /\ lastOp' = "saveError"
    /\ UNCHANGED <<currentDriveFileId, currentDriveFileName>>

\* the remote call rejects
saveRejected(req) ==
    /\ Step
    /\ saveFailed(req)
    /\ NoPush /\ Use("steps")
    /\ UNCHANGED <<data, timerVars, idVars, payload, localStorage, migVars, uiVars, limits,
                   settled, pushRun, undoRun, undoDocs, redoRun, pendingLoads, pendingCalls, driveFiles>>

\* the remote call resolves with result.fileId
saveResolved(req, fileId) ==
    /\ Step
    /\ currentDriveFileId' = Str(fileId)
    /\ currentDriveFileName' = req.fileName
    /\ saveStatus' = "saved"
    /\ setDriveButtonsEnabled(TRUE)
    /\ pendingSaves' = pendingSaves \ {req}
    /\ lastOp' = "saved"
    /\ driveFiles' = driveFiles \cup {fileId}
    /\ clearStatusLater
    /\ NoPush /\ Use("steps")
    /\ UNCHANGED <<data, historyTimeout, timers, idVars, payload, localStorage, migVars, uiVars, limits,
                   settled, pushRun, undoRun, undoDocs, redoRun, pendingLoads, pendingCalls>>

(***************************************************************************)
(* The file picker and the deletion of a remote file.  The picker lists    *)
(* the files of the store; its Load and Delete buttons are enabled and     *)
(* disabled with the other drive buttons.                                  *)
(***************************************************************************)
driveCallUnchanged ==
    /\ NoPush
    /\ UNCHANGED <<data, timerVars, idVars, payload, localStorage, migVars, uiVars, limits,
                   settled, pushRun, undoRun, undoDocs, redoRun, pendingLoads, pendingSaves>>

ListCall == [kind |-> "list", fileId |-> ""]

\* showGoogleDriveFilePicker() up to its await
showGoogleDriveFilePicker ==
    /\ Step
    /\ driveButtonsEnabled
    /\ signedIn
    /\ setDriveButtonsEnabled(FALSE)
    /\ saveStatus' = "saving"
    /\ pendingCalls' = pendingCalls \cup {ListCall}
    /\ lastOp' = "listStart"
    /\ UNCHANGED driveFiles
    /\ Use("steps")
    /\ driveCallUnchanged
    /\ UNCHANGED <<currentDriveFileId, currentDriveFileName>>

\* listFiles resolved: displayFilePickerModal clears the status; finally
listResolved(req) ==
    /\ Step
    /\ req.kind = "list"
    /\ pendingCalls' = pendingCalls \ {req}
    /\ saveStatus' = "none"
    /\ setDriveButtonsEnabled(TRUE)
    /\ lastOp' = "listed"
    /\ UNCHANGED driveFiles
    /\ Use("steps")
    /\ driveCallUnchanged
    /\ UNCHANGED <<currentDriveFileId, currentDriveFileName>>

\* listFiles rejected: catch and finally
listRejected(req) ==
    /\ Step
    /\ req.kind = "list"
    /\ pendingCalls' = pendingCalls \ {req}
    /\ saveStatus' = "error"
    /\ setDriveButtonsEnabled(TRUE)
    /\ lastOp' = "listError"
    /\ UNCHANGED driveFiles
    /\ Use("steps")
    /\ driveCallUnchanged
    /\ UNCHANGED <<currentDriveFileId, currentDriveFileName>>

\* deleteGoogleDriveFile(fileId, fileName) up to its await; confirm() may be refused
deleteGoogleDriveFileStart(fileId, confirmed) ==
    /\ Step
    /\ driveButtonsEnabled
    /\ IF confirmed
       THEN /\ setDriveButtonsEnabled(FALSE)
            /\ pendingCalls' = pendingCalls \cup {[kind |-> "delete", fileId |-> fileId]}
            /\ lastOp' = "deleteStart"
       ELSE /\ UNCHANGED <<driveButtonsEnabled, pendingCalls, driveFiles>>
            /\ lastOp' = "deleteRefused"
    /\ Use("steps")
    /\ driveCallUnchanged
    /\ UNCHANGED <<currentDriveFileId, currentDriveFileName, saveStatus, driveFiles>>

bindingAlwaysCleared(fileId) == [fileId |-> Null, fileName |-> Null]

\* if (this.currentDriveFileId === fileId) { both fields = null }
bindingAfterDelete(fileId) ==
    IF currentDriveFileId = Str(fileId)
    THEN [fileId |-> Null, fileName |-> Null]
    ELSE [fileId |-> currentDriveFileId, fileName |-> currentDriveFileName]

\* deleteFile resolved: the binding, then showGoogleDriveFilePicker() (buttons
\* off, the list call; without a session it returns at once) and the status
\* 'File deleted'
deleteResolved(req) ==
    /\ Step
    /\ req.kind = "delete"
    /\ req.fileId \in driveFiles
    /\ driveFiles' = driveFiles \ {req.fileId}
    /\ currentDriveFileId' = bindingAfterDelete(req.fileId).fileId
    /\ currentDriveFileName' = bindingAfterDelete(req.fileId).fileName
    /\ pendingCalls' = IF signedIn THEN (pendingCalls \ {req}) \cup {ListCall}
                       ELSE pendingCalls \ {req}
    /\ setDriveButtonsEnabled(FALSE)
    /\ saveStatus' = "saved"
    /\ lastOp' = "deleted"
    /\ Use("steps")
    /\ driveCallUnchanged

\* deleteFile rejected: the catch block
deleteRejected(req) ==
    /\ Step
    /\ req.kind = "delete"
    /\ pendingCalls' = pendingCalls \ {req}
    /\ saveStatus' = "error"
    /\ setDriveButtonsEnabled(TRUE)
    /\ lastOp' = "deleteError"
    /\ UNCHANGED driveFiles
    /\ Use("steps")
    /\ driveCallUnchanged
    /\ UNCHANGED <<currentDriveFileId, currentDriveFileName>>

(***************************************************************************)
(* The character image and the session.  A picked image file is named by   *)
(* the id the store gives its upload.                                      *)
(***************************************************************************)
ImageFiles == {"i1", "i2"}

imageCallUnchanged ==
    UNCHANGED <<timerVars, idVars, currentDriveFileId, currentDriveFileName, pendingLoads,
                pendingSaves, driveFiles, payload, localStorage, migVars, limits>>

withImage(fileId) == Obj([data.v EXCEPT !.characterImageFileId = fileId])

\* handleImageUpload(file) up to its await; the Upload button is no drive button
handleImageUploadStart(img) ==
    /\ Step
    /\ signedIn
    /\ setDriveButtonsEnabled(FALSE)
    /\ saveStatus' = "saving"
    /\ pendingCalls' = pendingCalls \cup {[kind |-> "upload", fileId |-> img]}
    /\ lastOp' = "uploadStart"
    /\ Use("steps")
    /\ driveCallUnchanged
    /\ UNCHANGED <<currentDriveFileId, currentDriveFileName, driveFiles>>

\* uploadImage resolved: the file id is written to the document, the reader is
\* started, pushHistory(); finally
uploadResolved(req) ==
    /\ Step
    /\ req.kind = "upload"
    /\ data' = withImage(Str(req.fileId))
    /\ DoPush(withImage(Str(req.fileId))) /\ TrackPush /\ Sync
    /\ pendingCalls' = (pendingCalls \ {req}) \cup {[kind |-> "readUpload", fileId |-> req.fileId]}
    /\ setDriveButtonsEnabled(TRUE)
    /\ lastOp' = "uploaded"
    /\ Use("steps")
    /\ imageCallUnchanged
    /\ UNCHANGED <<saveStatus, uiVars>>

\* uploadImage rejected: catch and finally
uploadRejected(req) ==
    /\ Step
    /\ req.kind = "upload"
    /\ pendingCalls' = pendingCalls \ {req}
    /\ saveStatus' = "error"
    /\ setDriveButtonsEnabled(TRUE)
    /\ lastOp' = "uploadError"
    /\ Use("steps")
    /\ driveCallUnchanged
    /\ UNCHANGED <<currentDriveFileId, currentDriveFileName, driveFiles>>

\* reader.onload: the image is cached and displayed; after an upload the status
readerLoaded(req) ==
    /\ Step
    /\ req.kind \in {"readUpload", "readBlob"}
    /\ imageCache' = Str(req.fileId)
    /\ imageDisplay' = Str(req.fileId)
    /\ pendingCalls' = pendingCalls \ {req}
    /\ IF req.kind = "readUpload"
       THEN saveStatus' = "saved" /\ clearStatusLater
       ELSE UNCHANGED <<saveStatus, statusTimers>>
    /\ lastOp' = "imageRead"
    /\ NoPush /\ Use("steps")
    /\ UNCHANGED <<data, historyTimeout, timers, idVars, currentDriveFileId,
                   currentDriveFileName, driveButtonsEnabled, pendingLoads, pendingSaves,
                   driveFiles, payload, localStorage, migVars, signedIn, limits, settled,
                   pushRun, undoRun, undoDocs, redoRun>>

\* removeCharacterImage(); its button is shown with an image
removeCharacterImage ==
    /\ Step
    /\ imageDisplay \notin {Str("none"), Str("notfound")}
    /\ data' = withImage(Null)
    /\ imageCache' = Null
    /\ imageDisplay' = Str("none")
    /\ DoPush(withImage(Null)) /\ TrackPush /\ Sync
    /\ saveStatus' = "saved"
    /\ clearStatusLater
    /\ lastOp' = "removeImage"
    /\ Use("steps")
    /\ UNCHANGED <<historyTimeout, timers, idVars, currentDriveFileId, currentDriveFileName,
                   driveButtonsEnabled, pendingLoads, pendingSaves, pendingCalls, driveFiles,
                   payload, localStorage, migVars, signedIn, limits>>

\* loadImage resolved: the reader is started on the blob
loadImageResolved(req) ==
    /\ Step
    /\ req.kind = "loadImage"
    /\ pendingCalls' = (pendingCalls \ {req}) \cup {[kind |-> "readBlob", fileId |-> req.fileId]}
    /\ lastOp' = "imageLoaded"
    /\ Use("steps")
    /\ driveCallUnchanged
    /\ UNCHANGED <<currentDriveFileId, currentDriveFileName, driveFiles, saveStatus,
                   driveButtonsEnabled>>

\* loadImage rejected: the placeholder 'Image not found'
loadImageRejected(req) ==
    /\ Step
    /\ req.kind = "loadImage"
    /\ pendingCalls' = pendingCalls \ {req}
    /\ imageDisplay' = Str("notfound")
    /\ lastOp' = "imageLoadError"
    /\ NoPush /\ Use("steps")
    /\ UNCHANGED <<data, timerVars, idVars, currentDriveFileId, currentDriveFileName,
                   saveStatus, driveButtonsEnabled, pendingLoads, pendingSaves, driveFiles,
                   payload, localStorage, migVars, imageCache, signedIn, limits, settled,
                   pushRun, undoRun, undoDocs, redoRun>>

\* the Sign Out button: googleDriveManager.signOut(), the status 'Signed out'
signOut ==
    /\ Step
    /\ signedIn
    /\ signedIn' = FALSE
    /\ saveStatus' = "saved"
    /\ clearStatusLater
    /\ lastOp' = "signOut"
    /\ NoPush /\ Use("steps")
    /\ UNCHANGED <<data, historyTimeout, timers, idVars, currentDriveFileId,
                   currentDriveFileName, driveButtonsEnabled, pendingLoads, pendingSaves,
                   pendingCalls, driveFiles, payload, localStorage, migVars, imageCache,
                   imageDisplay, limits, settled, pushRun, undoRun, undoDocs, redoRun>>

(***************************************************************************)
(* The migrator taken alone: a raw payload is migrated, and its result     *)
(* migrated again.                                                         *)
(***************************************************************************)
Migrate ==
    /\ mstep = "raw"
    /\ migrated' = validateAndMigrateData(payload)
    /\ mstep' = "once"
    /\ UNCHANGED <<sheetVars, driveVars, idVars, remigrated>>

Remigrate ==
    /\ mstep = "once"
    /\ remigrated' = validateAndMigrateData(migrated.doc)
    /\ mstep' = "twice"
    /\ UNCHANGED <<sheetVars, driveVars, idVars, migrated>>

Next ==
    \/ \E v \in NameInputs : SetCharacterName(v)
    \/ \E a \in EditAbilities, src \in EditSources, v \in ScoreInputs : SetAbilityScore(a, src, v)
    \/ \E a \in EditAbilities, v \in ModifierInputs : SetAbilityModifier(a, v)
    \/ TimerFire
    \/ addSkill
    \/ \E id \in entryIds(data.v.skills) : removeSkill(id)
    \/ addWeapon
    \/ \E id \in entryIds(data.v.weapons) : removeWeapon(id)
    \/ addSpell
    \/ \E id \in entryIds(data.v.spells) : removeSpell(id)
    \/ undo
    \/ redo
    \/ \E f \in FileIds, n \in FileNames : loadFromGoogleDriveStart(f, n)
    \/ \E req \in pendingLoads, c \in RemoteContents \cup {Undefined} :
          loadFromGoogleDriveRejected(req, c)
    \/ \E req \in pendingLoads, c \in RemoteContents : loadFromGoogleDriveLoaded(req, c)

Spec == Init /\ [][Next]_vars

(***************************************************************************)
(* A long run of immediate pushes on a fresh sheet, deep enough for the    *)
(* history to fill and evict, with one undo and one redo somewhere in it.  *)
(***************************************************************************)
InitLong ==
    /\ InitSheet([data |-> Undefined, driveInfo |-> Undefined], LongLimits)
    /\ payload = Undefined
    /\ migrated = Undefined
    /\ remigrated = Undefined
    /\ mstep = "idle"

NextLong ==
    \/ addWeapon
    \/ used.undos = 0 /\ undo
    \/ used.redos = 0 /\ redo

SpecLong == InitLong /\ [][NextLong]_vars

(***************************************************************************)
(* The migrator on raw payloads: every combination of one variant of the   *)
(* ability scores, of the lists, of the nested groups and of the scalars,  *)
(* and the payloads that are no object at all.                             *)
(***************************************************************************)
LegacyScores == Obj([str |-> Num(15), dex |-> Num(0), con |-> Num(12),
                     int |-> Num(8), wis |-> Num(13), cha |-> Num(31)])

AbilityVariants ==
    { EmptyMap,
      [abilityScores |-> LegacyScores],
      [abilities |-> LegacyScores],
      [abilityScores |-> Obj([str |-> Obj([base |-> Num(100), race |-> Null])])],
      [abilityScores |-> Obj([str |-> Null, dex |-> Obj([base |-> Num(0)])])],
      [abilityScores |-> Obj([str |-> Obj([base |-> Str("12"), luck |-> Num(1)])])],
      [abilityScores |-> Null] }

ListVariants ==
    { EmptyMap,
      [weapons |-> Arr(<<Weapon("1")>>), spells |-> Arr(<<>>)],
      [weapons |-> Obj([w1 |-> Weapon("1")])],
      [weapons |-> Null, spells |-> Str("x")],
      [skills |-> Arr(<<Skill("7", "S")>>)],
      [skills |-> Arr(<<Obj([name |-> Str("S")])>>)],
      [skills |-> Obj([athletics |-> Bool(TRUE), stealth |-> Bool(FALSE)])],
      [skills |-> Obj([perception |-> Bool(TRUE), lockpick |-> Bool(TRUE)]),
       spells |-> Arr(<<Obj([id |-> Str("1"), name |-> Str("P"), concentration |-> Bool(TRUE)]),
                        Obj([id |-> Str("2"), name |-> Str("Q")])>>)],
      [skills |-> Arr(<<Null>>)] }

GroupVariants ==
    { EmptyMap,
      [coins |-> Obj([cp |-> Null])],
      [coins |-> Obj([cp |-> Num(5), zz |-> Num(1)])],
      [spellSlots |-> Obj([level1 |-> Obj([current |-> Num(1)])])],
      [savingThrows |-> Null, abilityModifiers |-> Obj([str |-> Str("+5")])],
      [deathSaves |-> Arr(<<Bool(TRUE)>>)],
      [abilityModifiers |-> Str("x")] }

ScalarVariants ==
    { EmptyMap,
      [characterName |-> Str("B")],
      [characterName |-> Null, level |-> Num(0)],
      [shield |-> Bool(TRUE), extra |-> Num(1)] }

MigPayloads ==
    { Obj(Merge(Merge(a, l), Merge(g, c))) :
        a \in AbilityVariants, l \in ListVariants, g \in GroupVariants, c \in ScalarVariants }
    \cup { Null, Str("x"), Num(0), Arr(<<>>) }

InitMig ==
    /\ InitSheet([data |-> Undefined, driveInfo |-> Undefined], ShortLimits)
    /\ payload \in MigPayloads
    /\ migrated = Undefined
    /\ remigrated = Undefined
    /\ mstep = "raw"

NextMig == Migrate \/ Remigrate

SpecMig == InitMig /\ [][NextMig]_vars

(***************************************************************************)
(* The merge with the defaults on payloads that save falsy values.         *)
(***************************************************************************)
MergeScalars ==
    { EmptyMap,
      [level |-> Num(0), speed |-> Num(0), shield |-> Bool(FALSE), characterName |-> Str("")],
      [level |-> Num(3), speed |-> Null, shield |-> Bool(TRUE)],
      [experience |-> Num(0), heroicInspiration |-> Bool(FALSE), notes |-> Str(""),
       spellAttackBonus |-> Str("")] }

MergeGroups ==
    { EmptyMap,
      [savingThrows |-> Obj([con |-> Bool(FALSE)])],
      [savingThrows |-> Obj([con |-> Bool(FALSE), str |-> Bool(TRUE)]),
       coins |-> Obj([gp |-> Num(0)])],
      [abilityModifiers |-> Obj([str |-> Str("")])] }

MergeAbilities ==
    { EmptyMap,
      [abilityScores |-> LegacyScores],
      [abilities |-> Obj([str |-> Num(0), dex |-> Num(14)])],
      [abilityScores |-> Obj([str |-> Obj([base |-> Num(12), race |-> Num(0), asi |-> Num(2),
                                           feat |-> Num(0), magic |-> Num(0)])])],
      [abilityScores |-> Obj([dex |-> Obj([base |-> Num(0), magic |-> Num(0)])])],
      [abilityScores |-> Obj([str |-> Num(0), dex |-> Num(14)])] }

MergePayloads ==
    { Obj(Merge(a, Merge(g, c))) : a \in MergeAbilities, g \in MergeGroups, c \in MergeScalars }

InitMerge ==
    /\ InitSheet([data |-> Undefined, driveInfo |-> Undefined], ShortLimits)
    /\ payload \in MergePayloads
    /\ migrated = Undefined
    /\ remigrated = Undefined
    /\ mstep = "raw"

SpecMerge == InitMerge /\ [][NextMig]_vars

(***************************************************************************)
(* The migrator on saved spell lists in the old and the new entry format.  *)
(***************************************************************************)
SpellEntries ==
    { Obj(Merge([id |-> Str("1"), name |-> Str("P")], Merge(c, Merge(m, d)))) :
        c \in {EmptyMap, [concentration |-> Bool(TRUE)], [concentration |-> Bool(FALSE)]},
        m \in {EmptyMap, [material |-> Str("a pearl")]},
        d \in {EmptyMap, [duration |-> Str("1 hour")], [duration |-> Null]} }

SpellPayloads ==
    { Obj([spells |-> Arr(<<e>>)]) : e \in SpellEntries }
    \cup { Obj([spells |-> Arr(<<e, f>>)]) :
             e \in SpellEntries,
             f \in {Obj([id |-> Str("2"), name |-> Str("Q"), duration |-> Str("")]),
                    Obj([id |-> Str("2"), name |-> Str("Q"), material |-> Str("")])} }

InitSpells ==
    /\ InitSheet([data |-> Undefined, driveInfo |-> Undefined], ShortLimits)
    /\ payload \in SpellPayloads
    /\ migrated = Undefined
    /\ remigrated = Undefined
    /\ mstep = "raw"

SpecSpells == InitSpells /\ [][NextMig]_vars

(***************************************************************************)
(* The envelope test taken alone: a decoded payload is split into the      *)
(* document handed to validateAndMigrateData and the layout in force       *)
(* afterwards.                                                             *)
(***************************************************************************)
EnvelopeDocuments ==
    { Undefined, Null, Num(0), Str(""), Bool(FALSE),
      Obj([characterName |-> Str("B")]), Obj([level |-> Num(3)]) }

EnvelopeLayouts ==
    { Undefined, Null, Num(0), Str(""), Bool(FALSE),
      Obj([skillsWidth |-> Num(0)]), Obj([skillsWidth |-> Num(300)]) }

\* the keys of the object, a key whose value is Undefined being absent
EnvelopeOf(doc, layout, rest) ==
    Obj(Merge(Merge(IF doc = Undefined THEN EmptyMap ELSE ("character-definition" :> doc),
                    IF layout = Undefined THEN EmptyMap ELSE ("sheet-layout" :> layout)),
              rest))

EnvelopePayloads ==
    { EnvelopeOf(d, l, r) : d \in EnvelopeDocuments, l \in EnvelopeLayouts,
                            r \in {EmptyMap, [characterName |-> Str("C")]} }
    \cup { Num(5), Arr(<<>>) }

InitEnvelope ==
    /\ InitSheet([data |-> Undefined, driveInfo |-> Undefined], ShortLimits)
    /\ payload \in EnvelopePayloads
    /\ migrated = Undefined
    /\ remigrated = Undefined
    /\ mstep = "decoded"

\* the envelope test of loadFromGoogleDrive and the setLayout that follows it
Unwrap ==
    /\ mstep = "decoded"
    /\ migrated' = characterDataOf(payload)
    /\ remigrated' = layoutAfterLoad(payload, getLayout)
    /\ mstep' = "unwrapped"
    /\ UNCHANGED <<sheetVars, driveVars, idVars>>

NextEnvelope == Unwrap

SpecEnvelope == InitEnvelope /\ [][NextEnvelope]_vars

(***************************************************************************)
(* Edits of the ability breakdowns of a sheet whose cached document holds  *)
(* in-range components.                                                    *)
(***************************************************************************)
MaxAbilityEdits == 2

BreakdownSamples ==
    { Obj([base |-> Num(b), race |-> Num(r), asi |-> Num(0), feat |-> Num(f),
           magic |-> Num(0)]) : b \in {1, 16, 30}, r \in {-10, 2, 20}, f \in {0, 20} }

AbilityCaches ==
    { [data |-> Obj([abilityScores |-> Obj([str |-> b])]), driveInfo |-> Undefined] :
        b \in BreakdownSamples }

ScoreTexts == {"-15", "1", "16", "35", "", "abc"}

AbilityLimits == [steps |-> MaxAbilityEdits, track |-> FALSE]

InitAbility ==
    /\ \E cache \in AbilityCaches : InitSheet(cache, AbilityLimits) /\ payload = cache.data
    /\ migrated = Undefined
    /\ remigrated = Undefined
    /\ mstep = "idle"

NextAbility ==
    \/ \E src \in Sources, v \in ScoreTexts : SetAbilityScore("str", src, v)
    \/ \E v \in ModifierInputs : SetAbilityModifier("str", v)

SpecAbility == InitAbility /\ [][NextAbility]_vars

(***************************************************************************)
(* Ability-score field edits on the default document.                      *)
(***************************************************************************)
MaxClampEdits == 2

ClampAbilities == {"str", "dex"}

ClampLimits == [steps |-> MaxClampEdits, track |-> FALSE]

InitClamp ==
    /\ InitSheet([data |-> Undefined, driveInfo |-> Undefined], ClampLimits)
    /\ payload = Undefined
    /\ migrated = Undefined
    /\ remigrated = Undefined
    /\ mstep = "idle"

NextClamp ==
    \E a \in ClampAbilities, src \in Sources, v \in ScoreTexts : SetAbilityScore(a, src, v)

SpecClamp == InitClamp /\ [][NextClamp]_vars

(***************************************************************************)
(* Edits of the armor class and of the shield checkbox, with the history   *)
(* around them.                                                            *)
(***************************************************************************)
MaxCombatSteps == 4

ArmorClassTexts == {"15", "2", "", "abc"}

CombatCaches ==
    { [data |-> Undefined, driveInfo |-> Undefined],
      [data |-> Obj([armorClass |-> Num(15), shield |-> Bool(TRUE)]), driveInfo |-> Undefined] }

CombatLimits == [steps |-> MaxCombatSteps, track |-> FALSE]

InitCombat ==
    /\ \E cache \in CombatCaches : InitSheet(cache, CombatLimits) /\ payload = cache.data
    /\ migrated = Undefined
    /\ remigrated = Undefined
    /\ mstep = "idle"

NextCombat ==
    \/ \E v \in ArmorClassTexts : SetArmorClass(v)
    \/ \E v \in BOOLEAN : SetShield(v)
    \/ TimerFire
    \/ undo
    \/ redo

SpecCombat == InitCombat /\ [][NextCombat]_vars

(***************************************************************************)
(* The three lists: entries added and removed, undo and redo, and loads of *)
(* remote files that bring entries of their own.                           *)
(***************************************************************************)
MaxListSteps == 4

\* remote files whose skills carry ids no add of this program assigned
ListFiles ==
    { Obj([skills |-> Arr(<<Skill("7", "S"), Skill("3", "T")>>)]),
      Obj([skills |-> Arr(<<Skill("a", "S")>>)]) }

ListLimits == [steps |-> MaxListSteps, track |-> FALSE]

InitLists ==
    /\ InitSheet([data |-> Undefined, driveInfo |-> Undefined], ListLimits)
    /\ payload = Undefined
    /\ migrated = Undefined
    /\ remigrated = Undefined
    /\ mstep = "idle"

NextLists ==
    \/ addSkill
    \/ \E id \in entryIds(data.v.skills) : removeSkill(id)
    \/ addWeapon
    \/ \E id \in entryIds(data.v.weapons) : removeWeapon(id)
    \/ addSpell
    \/ \E id \in entryIds(data.v.spells) : removeSpell(id)
    \/ undo
    \/ redo
    \/ \E f \in FileIds, n \in FileNames : loadFromGoogleDriveStart(f, n)
    \/ \E req \in pendingLoads, c \in ListFiles : loadFromGoogleDriveLoaded(req, c)

SpecLists == InitLists /\ [][NextLists]_vars

(***************************************************************************)
(* Saves to the remote store, with edits of the name and the timer around  *)
(* them.                                                                   *)
(***************************************************************************)
MaxDriveSteps == 4

\* answers to the prompt of save-as-new: cancel, nothing, a blank, names
PromptAnswers == {Null, <<>>, <<" ">>, <<" ", "n", "2">>, <<"n", ".", "j", "s", "o", "n">>}

DriveLimits == [steps |-> MaxDriveSteps, track |-> FALSE]

InitDrive ==
    /\ \E cache \in InitialCaches : InitSheet(cache, DriveLimits) /\ payload = cache.data
    /\ migrated = Undefined
    /\ remigrated = Undefined
    /\ mstep = "idle"

NextDrive ==
    \/ \E v \in NameInputs : SetCharacterName(v)
    \/ TimerFire
    \/ saveToGoogleDriveStart
    \/ \E answer \in PromptAnswers : saveAsNewToGoogleDriveStart(answer)
    \/ \E req \in pendingSaves : saveRejected(req)
    \/ \E req \in pendingSaves : \E fileId \in savedFileIds(req) : saveResolved(req, fileId)
    \/ StatusTimerFire

SpecDrive == InitDrive /\ [][NextDrive]_vars

(***************************************************************************)
(* The file picker and deletions, on a bound and on an unbound sheet, with *)
(* edits of the name and the timer around them.                            *)
(***************************************************************************)
MaxDeleteSteps == 4

\* the files the picker lists: the one the cache is bound to, and another
DeleteIds == {"f1", "f2"}

DeleteLimits == [steps |-> MaxDeleteSteps, track |-> FALSE]

InitDelete ==
    /\ \E cache \in InitialCaches : InitSheet(cache, DeleteLimits) /\ payload = cache.data
    /\ migrated = Undefined
    /\ remigrated = Undefined
    /\ mstep = "idle"

NextDelete ==
    \/ \E v \in NameInputs : SetCharacterName(v)
    \/ TimerFire
    \/ showGoogleDriveFilePicker
    \/ \E req \in pendingCalls : listResolved(req)
    \/ \E req \in pendingCalls : listRejected(req)
    \/ \E f \in DeleteIds, c \in BOOLEAN : deleteGoogleDriveFileStart(f, c)
    \/ \E req \in pendingCalls : deleteResolved(req)
    \/ \E req \in pendingCalls : deleteRejected(req)

SpecDelete == InitDelete /\ [][NextDelete]_vars

(***************************************************************************)
(* A sheet that is edited and then loaded back from what a save of it      *)
(* wrote: the envelope, or the bare document of the older format.          *)
(***************************************************************************)
MaxRoundTripSteps == 4

RoundTripLimits == [steps |-> MaxRoundTripSteps, track |-> FALSE]

\* the stored forms of the live document
storedForms == {stringified(fileData(data)), stringified(data)}

InitRoundTrip ==
    /\ \E cache \in InitialCaches : InitSheet(cache, RoundTripLimits) /\ payload = cache.data
    /\ migrated = Undefined
    /\ remigrated = Undefined
    /\ mstep = "idle"

NextRoundTrip ==
    \/ \E v \in NameInputs : SetCharacterName(v)
    \/ \E a \in EditAbilities, v \in ModifierInputs : SetAbilityModifier(a, v)
    \/ \E v \in ArmorClassTexts : SetArmorClass(v)
    \/ addSkill
    \/ TimerFire
    \/ \E f \in FileIds, n \in FileNames : loadFromGoogleDriveStart(f, n)
    \/ \E req \in pendingLoads : \E c \in storedForms : loadFromGoogleDriveLoaded(req, c)

SpecRoundTrip == InitRoundTrip /\ [][NextRoundTrip]_vars

(***************************************************************************)
(* Bursts of field edits on a fresh sheet, and the timer.                  *)
(***************************************************************************)
MaxDebounceSteps == 4

DebounceNames == {"A", "B"}

DebounceLimits == [steps |-> MaxDebounceSteps, track |-> FALSE]

InitDebounce ==
    /\ InitSheet([data |-> Undefined, driveInfo |-> Undefined], DebounceLimits)
    /\ payload = Undefined
    /\ migrated = Undefined
    /\ remigrated = Undefined
    /\ mstep = "idle"

NextDebounce ==
    \/ \E v \in DebounceNames : SetCharacterName(v)
    \/ \E v \in ArmorClassTexts : SetArmorClass(v)
    \/ \E v \in BOOLEAN : SetShield(v)
    \/ TimerFire

SpecDebounce == InitDebounce /\ [][NextDebounce]_vars

(***************************************************************************)
(* The drive controls: saves, loads, the picker, deletions and image        *)
(* uploads of a sheet whose session may end at any moment.                  *)
(***************************************************************************)
MaxControlSteps == 4

\* JSON.parse of the content of the file that is loaded
ControlContents == { Obj([characterName |-> Str("B")]) }

ControlLimits == [steps |-> MaxControlSteps, track |-> FALSE]

InitControls ==
    /\ \E cache \in InitialCaches : InitSheet(cache, ControlLimits) /\ payload = cache.data
    /\ migrated = Undefined
    /\ remigrated = Undefined
    /\ mstep = "idle"

NextControls ==
    \/ saveToGoogleDriveStart
    \/ \E req \in pendingSaves : saveRejected(req)
    \/ \E req \in pendingSaves : \E fileId \in savedFileIds(req) : saveResolved(req, fileId)
    \/ \E f \in FileIds, n \in FileNames : loadFromGoogleDriveStart(f, n)
    \/ \E req \in pendingLoads : loadFromGoogleDriveRejected(req, Undefined)
    \/ \E req \in pendingLoads, c \in ControlContents : loadFromGoogleDriveLoaded(req, c)
    \/ showGoogleDriveFilePicker
    \/ \E req \in pendingCalls : listResolved(req)
    \/ \E req \in pendingCalls : listRejected(req)
    \/ \E f \in FileIds : deleteGoogleDriveFileStart(f, TRUE)
    \/ \E req \in pendingCalls : deleteResolved(req)
    \/ \E req \in pendingCalls : deleteRejected(req)
    \/ \E img \in ImageFiles : handleImageUploadStart(img)
    \/ \E req \in pendingCalls : uploadResolved(req)
    \/ \E req \in pendingCalls : uploadRejected(req)
    \/ \E req \in pendingCalls : readerLoaded(req)
    \/ signOut

SpecControls == InitControls /\ [][NextControls]_vars

(***************************************************************************)
(* The character image: uploads, removals, undo, redo and loads of a file  *)
(* without an image.                                                       *)
(***************************************************************************)
MaxImageSteps == 4

\* JSON.parse of the content of the file that is loaded: a document without
\* an image and one that names the image i1
ImageContents ==
    { Obj([characterName |-> Str("B")]), Obj([characterImageFileId |-> Str("i1")]) }

ImageLimits == [steps |-> MaxImageSteps, track |-> FALSE]

InitImage ==
    /\ \E cache \in InitialCaches : InitSheet(cache, ImageLimits) /\ payload = cache.data
    /\ migrated = Undefined
    /\ remigrated = Undefined
    /\ mstep = "idle"

NextImage ==
    \/ \E img \in ImageFiles : handleImageUploadStart(img)
    \/ \E req \in pendingCalls : uploadResolved(req)
    \/ \E req \in pendingCalls : uploadRejected(req)
    \/ \E req \in pendingCalls : readerLoaded(req)
    \/ removeCharacterImage
    \/ \E req \in pendingCalls : loadImageResolved(req)
    \/ \E req \in pendingCalls : loadImageRejected(req)
    \/ undo
    \/ redo
    \/ \E f \in FileIds, n \in FileNames : loadFromGoogleDriveStart(f, n)
    \/ \E req \in pendingLoads, c \in ImageContents : loadFromGoogleDriveLoaded(req, c)

SpecImage == InitImage /\ [][NextImage]_vars

(***************************************************************************)
(* Loads of remote files that are no documents, after edits of the sheet.  *)
(***************************************************************************)
MaxFailedLoadSteps == 4

\* JSON.parse of the content of the file: text that does not parse, the JSON
\* null, a JSON number, an envelope around a number, an envelope whose weapons
\* are in the keyed shape, and a document
FailedLoadContents ==
    { Str("unparsable"), Null, Num(5),
      Obj(("character-definition" :> Num(5))
          @@ ("sheet-layout" :> Obj([skillsWidth |-> Num(0)]))),
      Obj(("character-definition" :> Obj([weapons |-> Obj([w1 |-> Weapon("1")])]))
          @@ ("sheet-layout" :> Obj([skillsWidth |-> Num(0)]))),
      Obj([characterName |-> Str("B")]) }

FailedLoadLimits == [steps |-> MaxFailedLoadSteps, track |-> FALSE]

InitFailedLoad ==
    /\ \E cache \in InitialCaches : InitSheet(cache, FailedLoadLimits) /\ payload = cache.data
    /\ migrated = Undefined
    /\ remigrated = Undefined
    /\ mstep = "idle"

NextFailedLoad ==
    \/ \E v \in NameInputs : SetCharacterName(v)
    \/ TimerFire
    \/ addSkill
    \/ \E f \in InitialDriveFiles, n \in FileNames : loadFromGoogleDriveStart(f, n)
    \/ \E req \in pendingLoads, c \in FailedLoadContents \cup {Undefined} :
           loadFromGoogleDriveRejected(req, c)
    \/ \E req \in pendingLoads, c \in FailedLoadContents : loadFromGoogleDriveLoaded(req, c)

SpecFailedLoad == InitFailedLoad /\ [][NextFailedLoad]_vars

(***************************************************************************)
(* Writes to the live document of every kind (a field, a row of a list, an *)
(* entry added or removed) between pushes, undos and redos.                *)
(***************************************************************************)
MaxAliasSteps == 4

AliasLimits == [steps |-> MaxAliasSteps, track |-> FALSE]

InitAlias ==
    /\ \E cache \in InitialCaches : InitSheet(cache, AliasLimits) /\ payload = cache.data
    /\ migrated = Undefined
    /\ remigrated = Undefined
    /\ mstep = "idle"

NextAlias ==
    \/ \E v \in DebounceNames : SetCharacterName(v)
    \/ \E id \in entryIds(data.v.weapons), v \in NameInputs : SetWeaponName(id, v)
    \/ addWeapon
    \/ \E id \in entryIds(data.v.weapons) : removeWeapon(id)
    \/ TimerFire
    \/ undo
    \/ redo

SpecAlias == InitAlias /\ [][NextAlias]_vars

(***************************************************************************)
(* Properties.                                                             *)
(***************************************************************************)
PushOps == {"timer", "addSkill", "removeSkill", "addWeapon", "removeWeapon",
            "addSpell", "removeSpell"}

DiscreteOps == {"addSkill", "removeSkill", "addWeapon", "removeWeapon",
                "addSpell", "removeSpell", "load", "undo", "redo"}

\* C1: a push keeps the entries up to the cursor, discards those after it,
\* appends a copy of the live document and drops the oldest entry when the
\* length would exceed MAX_HISTORY; after it the cursor is the last index, the
\* length is at most MAX_HISTORY and the last entry equals the live document.
C1_PushContract ==
    [][pushCount' = pushCount + 1 =>
         LET full == Append(SubSeq(history, 1, historyIndex + 1), data')
         IN /\ history' = (IF Len(full) > MAX_HISTORY THEN Tail(full) ELSE full)
            /\ historyIndex' = Len(history') - 1
            /\ Len(history') <= MAX_HISTORY
            /\ history'[Len(history')] = data']_vars

\* a push into a history that has both evicted its oldest entry and lost a
\* redo branch
C1_Witness ==
    /\ lastOp = "addWeapon"
    /\ ordinals[1] > 1
    /\ \E i \in 1..(Len(ordinals) - 1) : ordinals[i + 1] > ordinals[i] + 1

\* C2: after k pushes followed by k undos, the live document is the document
\* before the first of those pushes (the live document as the push or install
\* before it left it, which the mutation recorded by that push then changed).
C2_UndoRoundTrip ==
    undoRun > 0 => data = pushRun[Len(pushRun) - undoRun + 1]

\* C3: after k undos followed by k redos with no push in between, the live
\* document is the document before the first of those undos.
C3_RedoRoundTrip ==
    redoRun > 0 => data = undoDocs[Len(undoDocs) - redoRun + 1]

\* C4: after MAX_HISTORY + 10 pushes in a row on a new history, the history
\* holds MAX_HISTORY entries, the oldest being the 11th pushed and the others
\* following in push order.
C4_HistoryBounds ==
    (used.undos = 0 /\ pushCount = MAX_HISTORY + 10) =>
        /\ Len(history) = MAX_HISTORY
        /\ \A i \in 1..Len(history) :
              /\ ordinals[i] = 10 + i
              /\ Len(history[i].v.weapons.v) = 10 + i - 1

C4_Witness ==
    /\ used.undos = 0
    /\ pushCount = MAX_HISTORY + 10
    /\ lastOp = "addWeapon"

\* C5: after a successful load (the cache at startup, a remote file later) the
\* history is the single entry copied from the migrated document, the cursor is
\* 0, and neither undo nor redo is possible.
C5_ResetOnLoad ==
    (lastOp = "load" \/ (lastOp = "construct" /\ payload.t # "undefined")) =>
        /\ history = <<JsonClone(validateAndMigrateData(payload).doc)>>
        /\ historyIndex = 0
        /\ ~canUndo(history, historyIndex)
        /\ ~canRedo(history, historyIndex)

\* a remote load that completed on a sheet whose history held a redo branch
C5_Witness ==
    /\ lastOp = "load"
    /\ used.undos = 1
    /\ nextWeaponId = Num(101)
    /\ localStorage.data = Undefined

\* C6: every discrete action (add or remove of a list entry, load, undo, redo)
\* cancels the pending debounce timer: right after one, no timer is pending.
C6_DiscreteActionCancelsTimer ==
    lastOp \in DiscreteOps => ~historyTimeout

\* C7: migrating the migrated document again changes nothing.
C7_MigratorIdempotent ==
    mstep = "twice" => remigrated.doc = migrated.doc

\* a payload in the oldest shapes, migrated twice
C7_Witness ==
    /\ mstep = "twice"
    /\ ~migrated.failed
    /\ Get(payload, "abilities") = LegacyScores
    /\ Get(payload, "skills") = Arr(<<Obj([name |-> Str("S")])>>)
    /\ Get(Get(payload, "coins"), "cp") = Null

\* C8: for every payload, each ability of the migrated document has exactly the
\* components base, race, asi, feat, magic, each an integer in its clamp range
\* (base in 1..30, the others in -10..20).
C8_AbilityScoresInRange ==
    mstep \in {"once", "twice"} =>
        \A a \in Abilities :
            LET b == migrated.doc.v.abilityScores.v[a]
            IN /\ b.t = "obj"
               /\ DOMAIN b.v = Sources
               /\ \A c \in Sources :
                     /\ b.v[c].t = "num"
                     /\ IF c = "base" THEN b.v[c].v \in 1..30 ELSE b.v[c].v \in -10..20

\* C9: the lists of the installed document are arrays on every load path.
C9_ListsAreArrays ==
    \A f \in {"skills", "weapons", "spells"} : data.v[f].t = "arr"

\* C10: every field of the migrated document is defined, and a saved value that
\* is absent or null falls back to the default, at the top level and key by key
\* inside abilityModifiers, savingThrows, deathSaves, spellSlots and coins; a
\* slot level always has both current and max.
C10_MigratorComplete ==
    mstep \in {"once", "twice"} =>
        LET d == migrated.doc.v
            defaults == getDefaultData.v
        IN /\ \A k \in DOMAIN d : d[k].t # "undefined"
           /\ \A k \in PlainFields : Nullish(Get(payload, k)) => d[k] = defaults[k]
           /\ \A g \in SpreadFields : \A k \in DOMAIN defaults[g].v :
                 /\ ~Nullish(Get(d[g], k))
                 /\ Nullish(OptGet(Get(payload, g), k)) => Get(d[g], k) = defaults[g].v[k]
           /\ \A l \in SlotLevels : \A k \in {"current", "max"} :
                 ~Nullish(OptGet(Get(d.spellSlots, l), k))

\* C11: a payload whose skills is a keyed map is migrated to the list of its
\* keys in enumeration order, entry i (from 0) with id i+1 as text, the name and
\* the ability of the fixed tables (the key itself and "str" for an unknown
\* key) and modifier "+0".
C11_LegacySkillMap ==
    (mstep \in {"once", "twice"} /\ Get(payload, "skills").t = "obj") =>
        migrated.doc.v.skills = migrateSkillMap(Get(payload, "skills"))

\* C20: the document a load path installs for a payload is the document the full
\* migration (skill map, weapons and spells coercion, spell fields, ability
\* scores, merge with defaults) makes of it.
C20_LoadPathsRunFullMigration ==
    (mstep \in {"once", "twice"} /\ payload.t = "obj") =>
        migrated.doc = loadData(payload)

\* floor((clamp(base + race + asi + feat + magic, 1, 30) - 10) / 2) as signed text
DerivedModifier(b) ==
    LET sum == b.v.base.v + b.v.race.v + b.v.asi.v + b.v.feat.v + b.v.magic.v
        clamped == IF sum < 1 THEN 1 ELSE IF sum > 30 THEN 30 ELSE sum
        m == (clamped - 10) \div 2
    IN Str(IF m >= 0 THEN "+" \o ToString(m) ELSE ToString(m))

\* C12: when a breakdown component of an ability is edited, the stored modifier
\* of that ability becomes floor((clamp(sum, 1, 30) - 10) / 2) with a leading "+"
\* when it is not negative; base 16 and race 2 give "+4", a sum below 1 "-5".
C12_AbilityTotal ==
    [][lastOp' = "editScore" =>
         \A a \in Abilities :
             LET b == data'.v.abilityScores.v[a]
                 m == data'.v.abilityModifiers.v[a]
             IN /\ (b # data.v.abilityScores.v[a] \/ m # data.v.abilityModifiers.v[a])
                     => m = DerivedModifier(b)
                /\ (b.v.base.v + b.v.race.v + b.v.asi.v + b.v.feat.v + b.v.magic.v = 18
                     /\ a = "str") => m = Str("+4")
                /\ (b.v.base.v + b.v.race.v + b.v.asi.v + b.v.feat.v + b.v.magic.v < 1
                     /\ a = "str") => m = Str("-5")]_vars

\* an edit that left the sum of an overridden ability below 1
C12_Witness ==
    /\ lastOp = "editScore"
    /\ used.steps = 2
    /\ data.v.abilityScores.v.str.v.base = Num(1)
    /\ data.v.abilityScores.v.str.v.race = Num(-10)
    /\ data.v.abilityScores.v.str.v.magic = Num(-10)
    /\ data.v.abilityModifiers.v.str = Str("-5")

\* C13: a modifier the user typed over the derived one is stored in the document
\* and stays as stored when a document is installed: after construction from the
\* cache, after a load and after an undo or redo the live modifiers are those of
\* the history entry under the cursor, not values derived again from the scores.
C13_OverrideKept ==
    (lastOp \in {"construct", "load"} \/ (lastOp \in {"undo", "redo"} /\ data = settled)) =>
        data.v.abilityModifiers = history[historyIndex + 1].v.abilityModifiers

\* C14: after every step the displayed armor class is the stored base plus 2
\* when the shield is worn, whatever the stored base is; a step of the shield
\* checkbox leaves the stored base as it was (so that bringing the shield back
\* to its earlier value shows the earlier text).
C14_ShieldSplit ==
    [][/\ displayedArmorClass(data') = numToString(Num(data'.v.armorClass.v + shieldBonus(data')))
       /\ lastOp' = "editShield" => data'.v.armorClass = data.v.armorClass]_vars

ListFields == {"skills", "weapons", "spells"}

\* C15: in every reachable state the ids of the entries of each list (skills,
\* weapons, spells) of the live document are pairwise different.
C15_IdsUnique ==
    \A f \in ListFields :
        data.v[f].t = "arr" =>
            \A i, j \in 1..Len(data.v[f].v) :
                i # j => Get(data.v[f].v[i], "id") # Get(data.v[f].v[j], "id")

\* the ids of the entries of list f in any entry of the history
idsInHistory(f) ==
    UNION {entryIds(history[k].v[f]) : k \in 1..Len(history)}

\* C16: the counter of a list never goes down, and in a session that started
\* empty and loaded nothing (so that every id in the history was assigned by an
\* add) the id an add assigns is none of the ids the history holds for that list.
C16_IdsNeverReused ==
    [][/\ (nextSkillId.t = "num" /\ nextSkillId'.t = "num") => nextSkillId'.v >= nextSkillId.v
       /\ (nextWeaponId.t = "num" /\ nextWeaponId'.t = "num") =>
              nextWeaponId'.v >= nextWeaponId.v
       /\ \A f \in ListFields :
              (/\ payload' = Undefined
               /\ lastOp' \in {"addSkill", "addWeapon", "addSpell"}
               /\ Len(data'.v[f].v) = Len(data.v[f].v) + 1)
              => Get(data'.v[f].v[Len(data'.v[f].v)], "id") \notin idsInHistory(f)]_vars

\* C19: the step that completes a remote load of file F with name N installs
\* the Migrator's output for the extracted document as the live document, leaves
\* the history holding that single document with the cursor on it, and sets the
\* binding to F and N.
C19_RemoteLoad ==
    [][(lastOp' = "load" /\ used'.steps = used.steps + 1) =>
         LET doc == validateAndMigrateData(payload').doc
         IN /\ data' = doc
            /\ history' = <<doc>>
            /\ historyIndex' = 0
            /\ \E req \in pendingLoads \ pendingLoads' :
                  /\ currentDriveFileId' = Str(req.fileId)
                  /\ currentDriveFileName' = Str(req.fileName)]_vars

\* C17: the step on which a remote save (save or save-as-new) is rejected leaves
\* the live document, the history and its cursor and the binding (id and name) as
\* they were, sets the error status, and leaves no save call pending (nothing is
\* sent again); the step that issued the call changed none of them either.
C17_RejectedSaveIsolated ==
    [][/\ (lastOp' = "saveError" /\ used'.steps = used.steps + 1) =>
             /\ UNCHANGED <<data, history, historyIndex, currentDriveFileId,
                            currentDriveFileName>>
             /\ saveStatus' = "error"
             /\ pendingSaves' = {}
       /\ (lastOp' \in {"saveStart", "saveAsNewStart"} /\ used'.steps = used.steps + 1) =>
             UNCHANGED <<data, history, historyIndex, currentDriveFileId,
                         currentDriveFileName>>]_vars

\* a save of a bound sheet was rejected while an edit awaited its push
C17_Witness ==
    /\ lastOp = "saveError"
    /\ saveStatus = "error"
    /\ currentDriveFileId = Str("f1")
    /\ currentDriveFileName = Str("n1")
    /\ historyTimeout
    /\ pendingSaves = {}

\* C18: the step on which a remote save succeeds sets the binding to the id the
\* remote store returned and to the name of the saved file, and leaves the cached
\* binding item equal to that binding.
C18_SavePersistsBinding ==
    [][(lastOp' = "saved" /\ used'.steps = used.steps + 1) =>
         /\ \E req \in pendingSaves \ pendingSaves' :
               /\ currentDriveFileName' = req.fileName
               /\ currentDriveFileId' \in {Str(i) : i \in savedFileIds(req)}
         /\ localStorage'.driveInfo = Obj([fileId |-> currentDriveFileId',
                                           fileName |-> currentDriveFileName'])]_vars

\* C21: the step on which a remote delete of id D succeeds sets the binding to
\* {null, null} when the sheet was bound to D and leaves it as it was otherwise;
\* the step on which a delete is rejected leaves the binding as it was; neither
\* step, nor the one issuing the call, changes the live document or the history.
C21_DeleteClearsBinding ==
    [][/\ (lastOp' = "deleted" /\ used'.steps = used.steps + 1) =>
             \E req \in pendingCalls \ pendingCalls' :
                 /\ req.kind = "delete"
                 /\ IF currentDriveFileId = Str(req.fileId)
                    THEN currentDriveFileId' = Null /\ currentDriveFileName' = Null
                    ELSE UNCHANGED <<currentDriveFileId, currentDriveFileName>>
       /\ (lastOp' \in {"deleteError", "deleteStart", "deleteRefused"}
            /\ used'.steps = used.steps + 1) =>
             UNCHANGED <<currentDriveFileId, currentDriveFileName>>
       /\ (lastOp' \in {"deleted", "deleteError", "deleteStart", "deleteRefused"}
            /\ used'.steps = used.steps + 1) =>
             UNCHANGED <<data, history, historyIndex>>]_vars

\* another file than the bound one was deleted while an edit awaited its push
C21_Witness ==
    /\ lastOp = "deleted"
    /\ currentDriveFileId = Str("f1")
    /\ currentDriveFileName = Str("n1")
    /\ historyTimeout

\* C22: loading back what a save of the live document writes, as the envelope
\* or as the bare document, leaves a live document equal to the one saved.
C22_EnvelopeRoundTrip ==
    [][(lastOp' = "load" /\ used'.steps = used.steps + 1) => data' = data]_vars

\* C23: an undo with the cursor at 0 and a redo with the cursor on the last
\* entry change neither the live document nor the entries nor the cursor; any
\* other undo or redo moves the cursor by exactly one, leaves the entries as
\* they were and leaves the live document equal to the entry under the cursor.
C23_UndoRedoSteps ==
    [][(lastOp' \in {"undo", "redo"} /\ used'.steps = used.steps + 1) =>
         LET atEnd == IF lastOp' = "undo" THEN historyIndex = 0
                      ELSE historyIndex = Len(history) - 1
             move == IF lastOp' = "undo" THEN -1 ELSE 1
         IN IF atEnd
            THEN UNCHANGED <<data, history, historyIndex>>
            ELSE /\ historyIndex' = historyIndex + move
                 /\ history' = history
                 /\ data' = history'[historyIndex' + 1]]_vars

EditOps == {"edit", "editScore", "editModifier", "editArmorClass", "editShield"}

\* C24: at most one timer is outstanding.  A field edit pushes nothing and
\* leaves exactly one timer outstanding, whatever was outstanding before; the
\* timer's run pushes exactly one entry, a copy of the live document as the
\* last edit left it, and leaves no timer outstanding: a burst of k edits with
\* no run of the timer between them ends in one push.  The entries of the
\* history are in the order of their pushes.
C24_DebounceCoalescing ==
    [][/\ timers' <= 1
       /\ lastOp' \in EditOps =>
             /\ timers' = 1
             /\ UNCHANGED <<history, historyIndex, pushCount>>
       /\ lastOp' = "timer" =>
             /\ timers' = 0
             /\ pushCount' = pushCount + 1
             /\ Len(history') = historyIndex' + 1
             /\ history'[historyIndex' + 1] = stringified(data)
             /\ data' = data
       /\ \A i, j \in 1..Len(ordinals') : i < j => ordinals'[i] < ordinals'[j]]_vars

\* three edits in a row, then the one push of the timer
C24_Witness ==
    /\ lastOp = "timer"
    /\ used.steps = 4
    /\ pushCount = 2
    /\ Len(history) = 2
    /\ timers = 0

\* C25: no entry of the history is the live object, and no step modifies an
\* entry: a step that pushes nothing leaves every entry as it was, and a step
\* that pushes keeps the entries it does not remove (the tail cut off after
\* the cursor, the oldest one on eviction) as they were, in their order, under
\* the one entry it appends.
C25_HistoryNotAliased ==
    [][/\ aliased' = {}
       /\ pushCount' = pushCount => history' = history
       /\ pushCount' = pushCount + 1 =>
             \E shift \in {0, 1} :
                 /\ Len(history') - 1 + shift <= historyIndex + 1
                 /\ \A i \in 1..(Len(history') - 1) : history'[i] = history[i + shift]]_vars

\* a row edit was pushed by the timer, undone, and the row edited again
C25_Witness ==
    /\ lastOp = "editRow"
    /\ used.steps = 4
    /\ Len(history) = 2
    /\ historyIndex = 0
    /\ data # history[1]
    /\ data # history[2]

\* what a reload would read: the cached document and the cached binding are
\* those of the sheet
CacheMirrors(cache, doc, fileId, fileName) ==
    /\ cache.data = stringified(doc)
    /\ cache.driveInfo = Obj([fileId |-> fileId, fileName |-> fileName])

\* C26: a step that changes the live document or the binding and leaves no
\* timer pending, and every run of the timer, leaves the cached document equal
\* to the live document and the cached binding equal to the binding.
C26_CacheMirrorsDocument ==
    [][(\/ lastOp' = "timer"
        \/ /\ timers' = 0
           /\ <<data', currentDriveFileId', currentDriveFileName'>>
                 # <<data, currentDriveFileId, currentDriveFileName>>)
       => CacheMirrors(localStorage', data', currentDriveFileId', currentDriveFileName')]_vars

ListOfOp ==
    [addSkill |-> "skills", removeSkill |-> "skills", addWeapon |-> "weapons",
     removeWeapon |-> "weapons", addSpell |-> "spells", removeSpell |-> "spells"]

AddOps == {"addSkill", "addWeapon", "addSpell"}
RemoveOps == {"removeSkill", "removeWeapon", "removeSpell"}

NextIdOf(f) ==
    CASE f = "skills" -> nextSkillId [] f = "weapons" -> nextWeaponId [] f = "spells" -> nextSpellId

\* the entries of seq whose id is not id, in their order
RECURSIVE Without(_, _)
Without(seq, id) ==
    IF seq = <<>> THEN <<>>
    ELSE IF Get(Head(seq), "id") = id THEN Without(Tail(seq), id)
    ELSE <<Head(seq)>> \o Without(Tail(seq), id)

\* C27: an add leaves its list one entry longer, the entries it had as they were
\* and the new one last with the next id of the list as its id; a remove leaves
\* its list without the entries of the given id and the others in their order;
\* both leave the two other lists as they were and push, in the same step, one
\* history entry equal to the document they leave, without setting a timer.
C27_ListOpsDiscrete ==
    [][(lastOp' \in AddOps \cup RemoveOps /\ used'.steps = used.steps + 1) =>
         LET f == ListOfOp[lastOp']
             old == data.v[f].v
             new == data'.v[f].v
         IN /\ lastOp' \in AddOps =>
                  /\ Len(new) = Len(old) + 1
                  /\ SubSeq(new, 1, Len(old)) = old
                  /\ Get(new[Len(new)], "id") = numToString(NextIdOf(f))
            /\ lastOp' \in RemoveOps =>
                  \E id \in entryIds(data.v[f]) :
                      /\ new = Without(old, id)
                      /\ Len(new) < Len(old)
            /\ \A g \in ListFields \ {f} : data'.v[g] = data.v[g]
            /\ pushCount' = pushCount + 1
            /\ history'[historyIndex' + 1] = stringified(data')
            /\ Len(history') = historyIndex' + 1
            /\ timers' = timers]_vars

\* the middle one of three skills was removed
C27_Witness ==
    /\ lastOp = "removeSkill"
    /\ Len(data.v.skills.v) = 2
    /\ Get(data.v.skills.v[1], "id") = Str("7")
    /\ Get(data.v.skills.v[2], "id") = Str("8")
    /\ Len(history) = 3

\* C28: the request of a save carries the bound id when the sheet is bound and
\* no id when the binding is null; the request of a save-as-new carries no id
\* whatever the binding is; a request without an id that resolves leaves the
\* sheet bound to a file the store did not have, and one with the id of a
\* file of the store leaves the store with the files it had.
C28_SavePassesBoundId ==
    [][(used'.steps = used.steps + 1) =>
         /\ lastOp' = "saveStart" =>
               \E req \in pendingSaves' \ pendingSaves :
                   req.fileId = IF currentDriveFileId = Null THEN Undefined
                                ELSE currentDriveFileId
         /\ lastOp' = "saveAsNewStart" =>
               \E req \in pendingSaves' \ pendingSaves : req.fileId = Undefined
         /\ lastOp' = "saved" =>
               \A req \in pendingSaves \ pendingSaves' :
                   /\ req.fileId = Undefined =>
                         /\ currentDriveFileId'.v \notin driveFiles
                         /\ driveFiles' = driveFiles \cup {currentDriveFileId'.v}
                   /\ (req.fileId # Undefined /\ req.fileId.v \in driveFiles) =>
                         /\ currentDriveFileId' = req.fileId
                         /\ driveFiles' = driveFiles]_vars

\* a save of a bound sheet is waiting for the store
C28_Witness ==
    /\ lastOp = "saveStart"
    /\ currentDriveFileId = Str("f1")
    /\ \E req \in pendingSaves : req.fileId = Str("f1")

C30_MalformedLoadEndsInError ==
    [][(used'.steps = used.steps + 1 /\ lastOp' = "load"
        /\ (payload' = Null \/ ~TypeofObject(payload'))) =>
         /\ validateAndMigrateData(payload').doc = getDefaultData
         /\ validateAndMigrateData(payload').failed
         /\ saveStatus' = "error"]_vars

\* C31: a save or a load that succeeds leaves the status 'saved' and a timer
\* that will clear it; a status 'error' is still there after any timer has run.
C31_StatusLifecycle ==
    [][(used'.steps = used.steps + 1) =>
         /\ lastOp' \in {"saved", "load"} =>
               saveStatus' = "saved" /\ statusTimers' = statusTimers + 1
         /\ (saveStatus = "error" /\ lastOp' \in {"statusTimer", "timer"}) =>
               saveStatus' = "error"]_vars

FinishedOps ==
    {"saved", "saveError", "load", "loadError", "listed", "listError", "uploaded",
     "uploadError", "deleteError"}

\* C32: no handler waits for the operations in flight: a save, a load, a
\* listing or an upload that finishes, and a deletion that fails, leave the
\* controls enabled whatever is still outstanding.
C32_ControlsNotSerialized ==
    [][(used'.steps = used.steps + 1 /\ lastOp' \in FinishedOps) => driveButtonsEnabled']_vars

\* a save and a load are in flight together
C32_Witness ==
    /\ pendingSaves # {}
    /\ pendingLoads # {}

\* the saves, loads, listings, deletions and uploads waiting for the store
InFlight ==
    pendingSaves \cup pendingLoads
        \cup {req \in pendingCalls : req.kind \in {"list", "delete", "upload"}}

\* C39: whenever no save, load, listing, deletion or upload is in flight the
\* drive controls are enabled.
C39_ControlsReenabled == InFlight = {} => driveButtonsEnabled

\* the image calls and readers that have not finished
ImageInFlight ==
    {req \in pendingCalls : req.kind \in {"upload", "readUpload", "loadImage", "readBlob"}}

\* C40: once no image call or reader is pending, the cached image and the
\* displayed image are those of the file the live document names, and with no
\* file named no image is displayed.
C40_ImageBelongsToDocument ==
    ImageInFlight = {} =>
        /\ imageCache # Null => imageCache = imageOf(data)
        /\ imageDisplay \notin {Str("none"), Str("notfound")} => imageDisplay = imageOf(data)

HasKey(x, k) == x.t = "obj" /\ k \in DOMAIN x.v

\* C33: a decoded payload that has both keys 'character-definition' and
\* 'sheet-layout' is unwrapped into the values of the two; any other payload is
\* the document itself and leaves the layout as it was.
C33_EnvelopeDetection ==
    mstep = "unwrapped" =>
        IF HasKey(payload, "character-definition") /\ HasKey(payload, "sheet-layout")
        THEN /\ migrated = payload.v["character-definition"]
             /\ remigrated = payload.v["sheet-layout"]
        ELSE /\ migrated = payload
             /\ remigrated = getLayout

\* the saved ability scores: data.abilityScores || data.abilities
SavedScores == Or(Get(payload, "abilityScores"), Get(payload, "abilities"))

\* C34: in the merge with the defaults a saved scalar that is neither undefined
\* nor null is taken as it is, 0, false and "" included; so is each saved key
\* of a nested group and each saved component of a breakdown; and scores saved
\* as bare numbers become breakdowns with base n (10 when n is 0) and every
\* other component 0.
C34_DefinedValueWins ==
    (mstep \in {"once", "twice"} /\ ~migrated.failed) =>
        LET d == migrated.doc.v
        IN /\ \A k \in PlainFields :
                 ~Nullish(Get(payload, k)) => d[k] = Get(payload, k)
           /\ \A g \in SpreadFields : Get(payload, g).t = "obj" =>
                 \A k \in DOMAIN Get(payload, g).v :
                    ~Nullish(Get(payload, g).v[k]) => Get(d[g], k) = Get(payload, g).v[k]
           /\ IF Get(SavedScores, "str").t = "num"
              THEN \A a \in Abilities : Get(SavedScores, a).t = "num" =>
                      d.abilityScores.v[a] =
                         Obj([base |-> IF Get(SavedScores, a).v = 0 THEN Num(10)
                                       ELSE Get(SavedScores, a),
                              race |-> Num(0), asi |-> Num(0), feat |-> Num(0),
                              magic |-> Num(0)])
              ELSE \A a \in Abilities, c \in Sources :
                      ~Nullish(OptGet(OptGet(SavedScores, a), c)) =>
                         d.abilityScores.v[a].v[c] = OptGet(OptGet(SavedScores, a), c)

\* a payload saving level 0, speed 0, no shield, no proficiency in con saves
\* and a base of 0 has been merged and kept them all
C34_Witness ==
    /\ mstep = "once"
    /\ ~migrated.failed
    /\ Get(payload, "level") = Num(0)
    /\ Get(payload, "shield") = Bool(FALSE)
    /\ Get(Get(payload, "savingThrows"), "con") = Bool(FALSE)
    /\ Get(Get(Get(payload, "abilityScores"), "dex"), "base") = Num(0)
    /\ migrated.doc.v.level = Num(0)
    /\ migrated.doc.v.speed = Num(0)

\* C35: a saved spell list comes out of the migration entry by entry: no entry
\* has concentration or material, every entry has a duration, every other
\* field of an entry is as it was saved, and migrating again changes nothing.
C35_SpellFieldsMigrated ==
    (mstep \in {"once", "twice"} /\ Get(payload, "spells").t = "arr") =>
        LET saved == Get(payload, "spells").v
            spells == migrated.doc.v.spells
        IN /\ spells.t = "arr"
           /\ Len(spells.v) = Len(saved)
           /\ \A i \in 1..Len(saved) :
                 /\ DOMAIN spells.v[i].v \cap {"concentration", "material"} = {}
                 /\ "duration" \in DOMAIN spells.v[i].v
                 /\ \A k \in DOMAIN saved[i].v \ {"concentration", "material", "duration"} :
                       Get(spells.v[i], k) = saved[i].v[k]
           /\ mstep = "twice" => remigrated.doc.v.spells = spells

\* the integer a numeric text of ScoreTexts stands for
IntegerOf == ("-15" :> -15) @@ ("1" :> 1) @@ ("16" :> 16) @@ ("35" :> 35)

ClampRange(source) == IF source = "base" THEN 1..30 ELSE -10..20

\* C36: from the default document on, every edit of an ability-score field
\* leaves every base an integer in 1..30 and every other component an integer
\* in -10..20; the edited component is the typed integer when that is in
\* range, 10 for a base and 0 for another component when the text is not a
\* number, and 0 for another component when the text is empty.
C36_EditsAreClamped ==
    [][\A a \in ClampAbilities, src \in Sources, v \in ScoreTexts :
         SetAbilityScore(a, src, v) =>
            LET x == data'.v.abilityScores.v[a].v[src]
            IN /\ \A b \in Abilities, c \in Sources :
                     /\ data'.v.abilityScores.v[b].v[c].t = "num"
                     /\ data'.v.abilityScores.v[b].v[c].v \in ClampRange(c)
               /\ (v \in DOMAIN IntegerOf /\ IntegerOf[v] \in ClampRange(src))
                     => x = Num(IntegerOf[v])
               /\ v = "abc" => x = (IF src = "base" THEN Num(10) ELSE Num(0))
               /\ (v = "" /\ src # "base") => x = Num(0)]_vars

\* two edits on the default document: a base typed above 30 and a racial
\* component typed below -10
C36_Witness ==
    /\ lastOp = "editScore"
    /\ payload = Undefined
    /\ data.v.abilityScores.v.str.v.base = Num(30)
    /\ data.v.abilityScores.v.str.v.race = Num(-10)

\* C37: the history has between 1 and MAX_HISTORY entries and the cursor
\* points at one of them; the undo control is disabled exactly when the cursor
\* is at the first entry and the redo control exactly when it is at the last.
C37_HistoryWellFormed ==
    /\ Len(history) \in 1..MAX_HISTORY
    /\ historyIndex \in 0..(Len(history) - 1)
    /\ undoDisabled <=> historyIndex <= 0
    /\ redoDisabled <=> historyIndex >= Len(history) - 1

\* C38: whenever no debounce timer is pending the live document equals the
\* history entry under the cursor.
C38_InSyncAtRest ==
    (~historyTimeout /\ timers = 0) => data = history[historyIndex + 1]

====
